---------------------------- MODULE Spec2Model ----------------------------
(***************************************************************************)
(* Model of the rag-explorer retrieval and scoring core:                   *)
(*   - the answer grader countKeywordMatches and the percentage computed   *)
(*     from it by benchmarkQuery           (scripts/rag-benchmark.js)      *)
(*   - the three retrieval strategies Vector, Hybrid and Combined search   *)
(*     over the dimension-sharded document store.                          *)
(* Texts are TLA+ strings handled character by character (Len, SubSeq,     *)
(* \o), numbers are integers in fixed-point units named where used.        *)
(***************************************************************************)
EXTENDS Integers, Sequences, FiniteSets, TLC

VARIABLES
  \* ---- answer grading (benchmarkQuery, step 4) ----
  llmResponse,       \* the generated answer being graded
  expected_keywords, \* query.expected_keywords
  metrics,           \* the metrics computed from them, or NoMetrics
  graded,            \* how many grading calls were made on this answer
  \* ---- retrieval (one strategy instance's search call) ----
  store,             \* the document store: shard width -> set of documents
  pc,                \* "idle" | "awaiting" (pool.query sent) | "returned" | "threw"
  call,              \* the arguments and locals of the current search call
  sent,              \* the queries this call has sent to the store
  cte,               \* the store's intermediate result sets for the query
  rows,              \* the list search returned
  error,             \* the error search threw, or NoError
  \* ---- keyword extraction (one extractKeywords call) ----
  extractInput,      \* the query text given to extractKeywords
  extracted,         \* what the call returned, or NotExtracted
  \* ---- createChunks (one content item) ----
  itemContent,      \* item.content
  chunkSize,        \* the chunk size asked for
  chunks,           \* the chunks pushed so far
  chunkStart,       \* where the next chunk starts
  chunkIndex,       \* the index of the next chunk
  cpc,              \* "begin" | "loop" (in the while loop) | "done"  \* ---- the shared connection module (unnamed/part_005) ----
  pool,             \* the module's pool variable: 0 for null, else the number of a pool
  poolState,        \* the pools made so far, each "live", "ending" or "ended"
  returned,         \* what the last initializePool or getPool call returned, and in what state
  closing,          \* the closePool calls suspended at await pool.end()
  exited,           \* the process has exited  \* ---- storeMultiDimensionEmbeddingsInPostgres and executeTransaction ----
  stored,           \* the committed rows of the documents_<width> tables
  queries,          \* the INSERTs built for the batch being stored
  qi,               \* how many of them have been executed
  pending,          \* the rows inserted by the open transaction
  ipc,              \* where the call is: "idle", "connect", "begin", "query", "commit", "rollback", "release", "done"
  releases,         \* how many times the call has released its client
  caught,           \* the error the catch block received, "none" when none
  thrown,           \* the error the call ended with, "none" when it returned or has not ended
  batches,          \* how many batches have been handed in  \* ---- the benchmark run (unnamed/part_003, scripts/rag-benchmark.js) ----
  mode,             \* how the command line was given: "options", "preset", "unknown-preset"
  runOptions,       \* the options runBenchmark is called with
  bpc,              \* where the run is
  at,               \* the loop variables: indices of strategy, LLM, embedding model, content type, query
  results,          \* runBenchmark's results array
  summary,          \* the groups generateSummary computed its statistics from
  written,          \* the results file has been written
  openPools,        \* strategy pools created and not ended
  saved,            \* rows in the results store under the test_run_id of the latest benchmarkQuery
  failed,           \* the loop positions whose benchmarkQuery threw
  exitCode,         \* the exit code of the process, -1 while it runs  \* ---- the store's execution of one hybrid or combined statement, branch by branch ----
  fstore,           \* the store the statement runs on
  fcall,            \* the locals of the search call whose statement is running
  fdone,            \* the branches (common table expressions) completed, in order of completion
  fbranch,          \* the rows of each completed branch, in the order the branch gave them
  fused             \* <<combined_results>> once the join has run, <<>> before

gvars == <<llmResponse, expected_keywords, metrics, graded>>
svars == <<store, pc, call, sent, cte, rows, error>>

kvars == <<extractInput, extracted>>
cvars == <<itemContent, chunkSize, chunks, chunkStart, chunkIndex, cpc>>
pvars == <<pool, poolState, returned, closing, exited>>
ivars == <<stored, queries, qi, pending, ipc, releases, caught, thrown, batches>>
bvars == <<mode, runOptions, bpc, at, results, summary, written, openPools, saved, failed, exitCode>>
fvars == <<fstore, fcall, fdone, fbranch, fused>>

\* The variables of the other parts of the program.
later == <<cvars, pvars, ivars, bvars, fvars>>

vars == <<gvars, svars, kvars, later>>

\* What the retrieval actions, and what the grading action, leave alone.
notSearch == <<gvars, kvars, later>>
notGrader == <<svars, kvars, later>>

-----------------------------------------------------------------------------
(* JavaScript string primitives *)

UpperChars == "ABCDEFGHIJKLMNOPQRSTUVWXYZ"
LowerChars == "abcdefghijklmnopqrstuvwxyz"

Digits == "0123456789"

CharsOf(chars) == { SubSeq(chars, i, i) : i \in 1..Len(chars) }
UpperSet == CharsOf(UpperChars)
LowerSet == CharsOf(LowerChars)
DigitSet == CharsOf(Digits)

LowerOf ==
  [ c \in UpperSet |->
      LET i == CHOOSE j \in 1..Len(UpperChars) : SubSeq(UpperChars, j, j) = c
      IN  SubSeq(LowerChars, i, i) ]

\* One character of String.prototype.toLowerCase.
LowerChar(c) == IF c \in UpperSet THEN LowerOf[c] ELSE c

\* Halving keeps the evaluation depth logarithmic in the length.
RECURSIVE toLowerCase(_)
toLowerCase(s) ==
  IF Len(s) = 0 THEN ""
  ELSE IF Len(s) = 1 THEN LowerChar(s)
  ELSE LET h == Len(s) \div 2 IN
       toLowerCase(SubSeq(s, 1, h)) \o toLowerCase(SubSeq(s, h + 1, Len(s)))

\* String.prototype.includes: p occurs in s as a contiguous substring.
includes(s, p) ==
  \E i \in 0..(Len(s) - Len(p)) : SubSeq(s, i + 1, i + Len(p)) = p

\* The k-th smallest element of a finite set of integers.
Nth(S, k) == CHOOSE x \in S : Cardinality({ y \in S : y < x }) = k - 1

\* String.prototype.split on a regular expression [class]+ : the maximal runs
\* of characters outside the class, with the empty pieces JavaScript yields
\* at the two ends. Where a piece starts: at the first character and after
\* each run of separators.
PieceStarts(s, IsSep(_)) ==
  {1} \cup { i + 1 : i \in { j \in 1..Len(s) :
                 /\ IsSep(SubSeq(s, j, j))
                 /\ (j = Len(s) \/ ~IsSep(SubSeq(s, j + 1, j + 1))) } }

\* The piece starting at st runs up to the next separator.
PieceAt(s, st, IsSep(_)) ==
  LET ends == { j \in st..Len(s) : IsSep(SubSeq(s, j, j)) }
      stop == IF ends = {} THEN Len(s) + 1
              ELSE CHOOSE j \in ends : \A k \in ends : j <= k
  IN  SubSeq(s, st, stop - 1)

split(s, IsSep(_)) ==
  LET starts == PieceStarts(s, IsSep) IN
  [ k \in 1..Cardinality(starts) |-> PieceAt(s, Nth(starts, k), IsSep) ]

\* The class [.!?] of text.split(/[.!?]+/).
IsSentenceEnd(c) == c \in {".", "!", "?"}

splitSentences(s) == split(s, IsSentenceEnd)

-----------------------------------------------------------------------------
(* countKeywordMatches *)

negativePatterns ==
  << "does not provide", "doesn't provide", "no information", "not mentioned",
     "not specified", "not found", "not available", "cannot find",
     "could not find", "unable to find", "the context does not",
     "the provided context does not", "the information is not", "no details",
     "no data", "not present", "not included" >>

PatternSet == { negativePatterns[i] : i \in 1..Len(negativePatterns) }

hasNegativePattern(lowerText) ==
  \E p \in PatternSet : includes(lowerText, p)

\* The keyword appears in a negative context: pattern + about/on/regarding.
InNegativeContext(lowerText, keywordLower) ==
  \E p \in PatternSet :
    \/ includes(lowerText, p \o " about " \o keywordLower)
    \/ includes(lowerText, p \o " on " \o keywordLower)
    \/ includes(lowerText, p \o " regarding " \o keywordLower)

\* keywords.every(...) of the purely negative response test.
PurelyNegative(lowerText, keywords) ==
  \A i \in 1..Len(keywords) :
    InNegativeContext(lowerText, toLowerCase(keywords[i]))

\* A keyword counted on presence alone, whatever the sentences say.
KeywordPresent(lowerText, neg, keyword) == includes(lowerText, toLowerCase(keyword))

\* One keyword of the counting loop.
KeywordCounts(lowerText, neg, keyword) ==
  LET keywordLower == toLowerCase(keyword) IN
  /\ includes(lowerText, keywordLower)
  /\ \/ ~neg
     \/ LET sentences == splitSentences(lowerText) IN
        \E j \in 1..Len(sentences) :
          /\ includes(sentences[j], keywordLower)
          /\ ~\E p \in PatternSet : includes(sentences[j], p)

\* A grader telling only whether some keyword is present.
anyKeywordMatches(text, keywords) ==
  IF \E i \in 1..Len(keywords) : includes(toLowerCase(text), toLowerCase(keywords[i]))
    THEN 1 ELSE 0

countKeywordMatches(text, keywords) ==
  IF text = "" \/ Len(keywords) = 0 THEN 0
  ELSE LET lowerText == toLowerCase(text)
           neg == hasNegativePattern(lowerText)
       IN  IF neg /\ PurelyNegative(lowerText, keywords) THEN 0
           ELSE Cardinality({ i \in 1..Len(keywords) :
                                KeywordCounts(lowerText, neg, keywords[i]) })

-----------------------------------------------------------------------------
(* benchmarkQuery, step 4: the keyword metrics *)

\* A JavaScript number a / b * 100: NaN for 0/0, an infinity for x/0, else
\* the exact quotient kept as numerator and denominator.
NaN == [kind |-> "NaN"]
JsPercent(a, b) ==
  IF b = 0
    THEN (IF a = 0 THEN NaN ELSE [kind |-> "Infinity"])
    ELSE [kind |-> "number", num |-> a * 100, den |-> b]

KeywordMetrics(response, keywords) ==
  LET keywordsMatched == countKeywordMatches(response, keywords) IN
  [ keywordsMatched |-> keywordsMatched,
    keywordMatchPercentage |-> JsPercent(keywordsMatched, Len(keywords)) ]

NoMetrics == [ keywordsMatched |-> -1, keywordMatchPercentage |-> [kind |-> "none"] ]

\* The answers the LLM may give: up to MaxSentences of these sentences.
MaxSentences == 2

Sentences ==
  { "I don't have information about pressure sensors.",
    "The pressure sensor reads in Pa.",
    "No information about voltage!",
    "The context does not provide details on pressure.",
    "Not found regarding Pressure?" }

RECURSIVE AnswersOf(_)
AnswersOf(n) ==
  IF n = 0 THEN {""}
  ELSE LET shorter == AnswersOf(n - 1) IN
       shorter \cup { IF a = "" THEN s ELSE a \o " " \o s :
                        a \in shorter, s \in Sentences }

Answers == AnswersOf(MaxSentences)

KeywordLists ==
  { <<>>, <<"pressure">>, <<"pressure", "voltage">>, <<"Voltage">>,
    <<"sensor", "pa", "voltage">> }

MaxGradings == 2

\* A grading that adds to the count of the grading before it.
GradeAccumulating ==
  /\ graded < MaxGradings
  /\ metrics' = [ KeywordMetrics(llmResponse, expected_keywords) EXCEPT
                    !.keywordsMatched = @ + (IF graded > 0 THEN metrics.keywordsMatched ELSE 0) ]
  /\ graded' = graded + 1
  /\ UNCHANGED <<llmResponse, expected_keywords, notGrader>>

\* Lines 275-302: keywordsMatched and keywordMatchPercentage of the result.
Grade ==
  /\ graded < MaxGradings
  /\ metrics' = KeywordMetrics(llmResponse, expected_keywords)
  /\ graded' = graded + 1
  /\ UNCHANGED <<llmResponse, expected_keywords, notGrader>>

-----------------------------------------------------------------------------
(* extractKeywords (HybridSearchStrategy and CombinedSearchStrategy) *)

\* The regular-expression classes \w and \s.
IsWordChar(c) == c \in UpperSet \cup LowerSet \cup DigitSet \cup {"_"}
IsWhitespace(c) == c \in {" ", "\t", "\n", "\r"}

\* .replace(/[^\w\s]/g, ''): drop every character that is neither.
RECURSIVE removePunctuation(_)
removePunctuation(s) ==
  IF Len(s) = 0 THEN ""
  ELSE IF Len(s) = 1 THEN (IF IsWordChar(s) \/ IsWhitespace(s) THEN s ELSE "")
  ELSE LET h == Len(s) \div 2 IN
       removePunctuation(SubSeq(s, 1, h)) \o removePunctuation(SubSeq(s, h + 1, Len(s)))

stopWords ==
  {"a", "an", "the", "and", "or", "but", "is", "are", "in", "on", "at", "to",
   "for", "with"}

\* The subsequence of w at the indices in keep, in index order.
SelectAt(w, keep) == [ k \in 1..Cardinality(keep) |-> w[Nth(keep, k)] ]

\* [...words]: the words as they are, duplicates kept.
allInOrder(w) == w

\* [...new Set(words)]: the first occurrence of each word, in order.
uniqueInOrder(w) ==
  SelectAt(w, { i \in 1..Len(w) : \A j \in 1..(i - 1) : w[j] # w[i] })

extractKeywords(queryText) ==
  LET pieces == split(removePunctuation(toLowerCase(queryText)), IsWhitespace)
      words  == SelectAt(pieces, { i \in 1..Len(pieces) :
                           Len(pieces[i]) > 2 /\ pieces[i] \notin stopWords })
  IN  uniqueInOrder(words)

NotExtracted == [ done |-> FALSE ]

\* The query texts extractKeywords is applied to: up to MaxFragments of these
\* fragments, one after the other.
MaxFragments == 2

Fragments ==
  { "The Co2Sensor is a sensor.", " \t  co2_Sensor! Sensor", "sensor ", "AND",
    " it's", "for ab", "\n", "co2_sensor" }

RECURSIVE TextsOf(_)
TextsOf(n) ==
  IF n = 0 THEN {""}
  ELSE LET shorter == TextsOf(n - 1) IN
       shorter \cup { a \o f : a \in shorter, f \in Fragments }

\* this.extractKeywords(queryText)
Extract ==
  /\ extracted = NotExtracted
  /\ extracted' = [ done |-> TRUE, keywords |-> extractKeywords(extractInput) ]
  /\ UNCHANGED <<extractInput, gvars, svars, later>>

\* keywords.join(' | ')
RECURSIVE join(_, _)
join(w, sep) ==
  IF Len(w) = 0 THEN ""
  ELSE IF Len(w) = 1 THEN w[1]
  ELSE w[1] \o sep \o join(Tail(w), sep)

-----------------------------------------------------------------------------
(* The document store's operators used by the queries (PostgreSQL, pgvector) *)

\* content ILIKE pattern: % matches any run of characters, _ any one
\* character, a backslash makes the next pattern character literal; letters
\* compare without case.
RECURSIVE LikeFrom(_, _, _, _)
LikeFrom(s, i, p, j) ==
  IF j > Len(p) THEN i > Len(s)
  ELSE LET c == SubSeq(p, j, j) IN
       IF c = "%"
         THEN \E k \in i..(Len(s) + 1) : LikeFrom(s, k, p, j + 1)
       ELSE IF c = "_"
         THEN i <= Len(s) /\ LikeFrom(s, i + 1, p, j + 1)
       ELSE IF c = "\\" /\ j < Len(p)
         THEN /\ i <= Len(s)
              /\ SubSeq(s, i, i) = SubSeq(p, j + 1, j + 1)
              /\ LikeFrom(s, i + 1, p, j + 2)
       ELSE /\ i <= Len(s)
            /\ SubSeq(s, i, i) = c
            /\ LikeFrom(s, i + 1, p, j + 1)

ILIKE(s, pattern) == LikeFrom(toLowerCase(s), 1, toLowerCase(pattern), 1)

\* The text-search parser: a text's words are its runs of letters and
\* digits, lowercased; the 'english' configuration drops its stop words.
\* (Stemming is left out: the texts of the model are their own stems.)
IsNotAlnum(c) == c \notin UpperSet \cup LowerSet \cup DigitSet

englishStopWords == {"a", "an", "the", "is", "are", "and", "or", "of", "in", "on"}

parseWords(text) ==
  LET pieces == split(toLowerCase(text), IsNotAlnum) IN
  SelectAt(pieces, { i \in 1..Len(pieces) : pieces[i] # "" })

\* to_tsvector('english', text): the words with their positions.
to_tsvector(text) ==
  LET w == parseWords(text) IN
  { <<i, w[i]>> : i \in { k \in 1..Len(w) : w[k] \notin englishStopWords } }

\* The lexemes of to_tsquery('english', 'k1 | k2 | ...') and of
\* plainto_tsquery('english', text): the words of the argument.
queryLexemes(text) ==
  LET w == parseWords(text) IN
  { w[i] : i \in 1..Len(w) } \ englishStopWords

\* tsv @@ (l1 & l2 & ...): every lexeme of the query is in the document; a
\* query without lexemes would match every document.
MatchesAll(tsv, lexemes) == \A l \in lexemes : \E e \in tsv : e[2] = l

\* tsvector @@ to_tsquery(k1 | k2 ...): some lexeme of the query occurs.
MatchesAny(tsv, lexemes) == \E e \in tsv : e[2] \in lexemes

\* ts_rank_cd for an OR query over unweighted text, in hundredths: every
\* occurrence of a query lexeme is a cover of weight D = 0.1.
WeightD == 10
ts_rank_cd_or(tsv, lexemes) ==
  WeightD * Cardinality({ e \in tsv : e[2] \in lexemes })

\* ts_rank_cd(setweight(name,'A') || setweight(library,'B') ||
\* setweight(content,'C'), plainto_tsquery(q), 32) in hundredths: the query
\* lexemes are ANDed; the covers are weighted A = 1.0, B = 0.4, C = 0.2 and
\* the rank r is normalized to r / (r + 1).
WeightA == 100
WeightB == 40
WeightC == 20
ts_rank_cd_bm25(d, lexemes) ==
  LET a == to_tsvector(d.xeto_spec_name)
      b == to_tsvector(d.xeto_library)
      c == to_tsvector(d.content)
      present(l) == \E e \in a \cup b \cup c : e[2] = l
      hits(tsv) == Cardinality({ e \in tsv : e[2] \in lexemes })
      r == (WeightA * hits(a) + WeightB * hits(b) + WeightC * hits(c))
             \div Cardinality(lexemes)
  IN  IF lexemes = {} \/ \E l \in lexemes : ~present(l) THEN 0
      ELSE (r * 100) \div (r + 100)

\* Vectors are kept by two components; every vector of the model has an
\* integer length. Similarities are in hundredths.
Dot(a, b) == a[1] * b[1] + a[2] * b[2]
MaxNorm == 10
Norm(a) == CHOOSE n \in 0..MaxNorm : n * n = Dot(a, a)

\* A distance from the inner product alone, not divided by the lengths.
InnerProductDistance(a, b) == 100 - Dot(a, b)

\* embedding <=> query: pgvector's cosine distance.
CosineDistance(a, b) == 100 - (Dot(a, b) * 100) \div (Norm(a) * Norm(b))

-----------------------------------------------------------------------------
(* The document store: one table per embedding width (setup-database.sql) *)

ShardWidths == {768, 1536, 3072}

\* A naming that sends an unknown width to the default shard: not what search
\* does, which names the table after whatever width it is given.
TableOfKnownWidth(dimension) ==
  "documents_" \o ToString(IF dimension \in ShardWidths THEN dimension ELSE 1536)

TableOf(dimension) == "documents_" \o ToString(dimension)

Tables == { TableOf(w) : w \in ShardWidths }

\* VECTOR(n): the width of the embedding column of a table.
ColumnWidth(table) == CHOOSE w \in ShardWidths : TableOf(w) = table

Doc(id, content, type, name, library, embedding) ==
  [ id |-> id, content |-> content, content_type |-> type,
    xeto_spec_name |-> name, xeto_library |-> library, embedding |-> embedding ]

\* LIMIT n without the ORDER BY: any n rows in any order.
RECURSIVE UnorderedLimit(_, _)
UnorderedLimit(P, n) ==
  IF P = {} \/ n <= 0 THEN { <<>> }
  ELSE UNION { { <<p[2]>> \o s : s \in UnorderedLimit(P \ {p}, n - 1) } : p \in P }

\* ORDER BY key DESC LIMIT n over a set P of <<key, row>> pairs: every list
\* the store may return, rows of equal key coming in any order.
RECURSIVE OrderByDescLimit(_, _)
OrderByDescLimit(P, n) ==
  IF P = {} \/ n <= 0 THEN { <<>> }
  ELSE LET top == { p \in P : \A o \in P : o[1] <= p[1] } IN
       UNION { { <<p[2]>> \o s : s \in OrderByDescLimit(P \ {p}, n - 1) } :
               p \in top }

Range(s) == { s[i] : i \in 1..Len(s) }

\* The candidates of a common table expression ... ORDER BY key DESC LIMIT n:
\* the rows of any such list, that is any n rows (all, when there are fewer)
\* none of which has a smaller key than a row left out.
LimitSets(P, n) ==
  IF Cardinality(P) <= n THEN { { p[2] : p \in P } }
  ELSE { { p[2] : p \in T } :
         T \in { U \in SUBSET P :
                   /\ Cardinality(U) = n
                   /\ \A p \in U, o \in P \ U : o[1] <= p[1] } }

\* FROM table without the WHERE: every document of the shard.
Unfiltered(docs, contentType) == docs

\* FROM table WHERE content_type = $2
Filtered(docs, contentType) == { d \in docs : d.content_type = contentType }

\* 1 - (embedding <=> $1::vector)
Similarity(d, q) == 100 - CosineDistance(d.embedding, q)

\* ... ORDER BY embedding <=> $1::vector LIMIT n (ascending distance).
ByDistance(docs, q) ==
  { << 0 - CosineDistance(d.embedding, q),
       [ id |-> d.id, content |-> d.content, content_type |-> d.content_type,
         xeto_spec_name |-> d.xeto_spec_name, xeto_library |-> d.xeto_library,
         vector_similarity |-> Similarity(d, q) ] >> : d \in docs }

\* keyword_results: WHERE to_tsvector(content) @@ to_tsquery($4)
\*                  ORDER BY keyword_similarity DESC
ByKeywordRank(docs, keywordPattern) ==
  LET lexemes == queryLexemes(keywordPattern) IN
  { << ts_rank_cd_or(to_tsvector(d.content), lexemes),
       [ id |-> d.id, content |-> d.content, content_type |-> d.content_type,
         xeto_spec_name |-> d.xeto_spec_name, xeto_library |-> d.xeto_library,
         keyword_similarity |-> ts_rank_cd_or(to_tsvector(d.content), lexemes) ] >> :
    d \in { e \in docs : MatchesAny(to_tsvector(e.content), lexemes) } }

\* bm25_results: no match filter, ORDER BY bm25_similarity DESC
ByBm25Rank(docs, queryText) ==
  LET lexemes == queryLexemes(queryText) IN
  { << ts_rank_cd_bm25(d, lexemes),
       [ id |-> d.id, content |-> d.content, content_type |-> d.content_type,
         xeto_spec_name |-> d.xeto_spec_name, xeto_library |-> d.xeto_library,
         bm25_similarity |-> ts_rank_cd_bm25(d, lexemes) ] >> : d \in docs }

Ids(rs) == { r.id : r \in rs }
RowOf(rs, id) == CHOOSE r \in rs : r.id = id

\* COALESCE(x.score, 0) for the row of id in rs, NULL when the join found none.
Coalesce0(rs, id, field) == IF id \in Ids(rs) THEN RowOf(rs, id)[field] ELSE 0

\* COALESCE(a.col, b.col)
CoalesceRow(as, bs, id) == IF id \in Ids(as) THEN RowOf(as, id) ELSE RowOf(bs, id)

\* vector_results INNER JOIN keyword_results: only the candidates of both
\* branches, unlike the FULL OUTER JOIN of the query.
HybridInnerJoin(v, k, vectorWeight, keywordWeight) ==
  { [ id |-> id, content |-> RowOf(v, id).content,
      content_type |-> RowOf(v, id).content_type,
      xeto_spec_name |-> RowOf(v, id).xeto_spec_name,
      xeto_library |-> RowOf(v, id).xeto_library,
      weighted_vector_similarity |-> RowOf(v, id).vector_similarity * vectorWeight,
      weighted_keyword_similarity |-> RowOf(k, id).keyword_similarity * keywordWeight,
      combined_score |-> (RowOf(v, id).vector_similarity * vectorWeight)
                           + (RowOf(k, id).keyword_similarity * keywordWeight) ] :
    id \in Ids(v) \cap Ids(k) }

\* Hybrid combined_results: vector_results FULL OUTER JOIN keyword_results.
\* Weights are in tenths, so weighted scores are in thousandths.
HybridCombined(v, k, vectorWeight, keywordWeight) ==
  { LET r == CoalesceRow(v, k, id)
        vs == Coalesce0(v, id, "vector_similarity")
        ks == Coalesce0(k, id, "keyword_similarity")
    IN  [ id |-> id, content |-> r.content, content_type |-> r.content_type,
          xeto_spec_name |-> r.xeto_spec_name, xeto_library |-> r.xeto_library,
          weighted_vector_similarity |-> vs * vectorWeight,
          weighted_keyword_similarity |-> ks * keywordWeight,
          combined_score |-> (vs * vectorWeight) + (ks * keywordWeight) ] :
    id \in Ids(v) \cup Ids(k) }

\* Combined vk_join: vector_results FULL OUTER JOIN keyword_results, each
\* side's score kept (NULL when absent, see Coalesce0 at its use).
vk_join(v, k) == [ v |-> v, k |-> k, ids |-> Ids(v) \cup Ids(k) ]

\* vk_join LEFT JOIN bm25_results: the candidates of the relevance branch alone
\* are lost, unlike the FULL OUTER JOIN of the query.
CombinedLeftJoin(vk, b, vectorWeight, keywordWeight, bm25Weight) ==
  { LET r  == CoalesceRow(vk.v, vk.k, id)
        vs == Coalesce0(vk.v, id, "vector_similarity")
        ks == Coalesce0(vk.k, id, "keyword_similarity")
        bs == Coalesce0(b, id, "bm25_similarity")
    IN  [ id |-> id, content |-> r.content, content_type |-> r.content_type,
          xeto_spec_name |-> r.xeto_spec_name, xeto_library |-> r.xeto_library,
          weighted_vector_similarity |-> vs * vectorWeight,
          weighted_keyword_similarity |-> ks * keywordWeight,
          weighted_bm25_similarity |-> bs * bm25Weight,
          combined_score |-> (vs * vectorWeight) + (ks * keywordWeight)
                               + (bs * bm25Weight) ] :
    id \in vk.ids }

\* Combined combined_results: vk_join FULL OUTER JOIN bm25_results.
CombinedResults(vk, b, vectorWeight, keywordWeight, bm25Weight) ==
  { LET r  == IF id \in vk.ids THEN CoalesceRow(vk.v, vk.k, id) ELSE RowOf(b, id)
        vs == Coalesce0(vk.v, id, "vector_similarity")
        ks == Coalesce0(vk.k, id, "keyword_similarity")
        bs == Coalesce0(b, id, "bm25_similarity")
    IN  [ id |-> id, content |-> r.content, content_type |-> r.content_type,
          xeto_spec_name |-> r.xeto_spec_name, xeto_library |-> r.xeto_library,
          weighted_vector_similarity |-> vs * vectorWeight,
          weighted_keyword_similarity |-> ks * keywordWeight,
          weighted_bm25_similarity |-> bs * bm25Weight,
          combined_score |-> (vs * vectorWeight) + (ks * keywordWeight)
                               + (bs * bm25Weight) ] :
    id \in vk.ids \cup Ids(b) }

\* phrase_boosted: CASE WHEN content ILIKE '%' || $5 || '%'
\*                 THEN combined_score * 1.2 ELSE combined_score END.
\* boosted_score is in ten-thousandths: the factor is 12 or 10 tenths.
BoostFactor == 12
NoBoost == 10
PhraseMatches(content, queryText) == ILIKE(content, "%" \o queryText \o "%")

phrase_boosted(cr, queryText) ==
  { [ row |-> r,
      boosted_score |-> IF PhraseMatches(r.content, queryText)
                          THEN r.combined_score * BoostFactor
                          ELSE r.combined_score * NoBoost ] : r \in cr }

-----------------------------------------------------------------------------
(* The stores and the arguments of the model *)

\* Documents of the 768 shard (ids are the table's SERIAL keys).
D1 == Doc(1, "Co2-Sensor point", "xeto", "Co2Sensor", "ph.points", <<3, 4>>)
D2 == Doc(2, "co2_sensor is a sensor", "xeto", "Sensor", "ph", <<-3, -4>>)
D3 == Doc(3, "air temp sensor", "xeto", "TempSensor", "ph.points", <<4, 3>>)
D4 == Doc(4, "zone air point", "xeto", "", "", <<6, 8>>)
D5 == Doc(5, "the sensor docs", "markdown", "", "", <<3, 4>>)
\* A document of the 1536 shard.
E1 == Doc(1, "co2_sensor", "xeto", "Co2Sensor", "ph.points", <<0, 5>>)

EmptyStore == [ t \in Tables |-> {} ]

StoreOf(d768, d1536) ==
  [ t \in Tables |-> IF t = TableOf(768) THEN d768
                     ELSE IF t = TableOf(1536) THEN d1536 ELSE {} ]

Stores ==
  { StoreOf({D1, D2, D3, D4, D5}, {E1}),
    StoreOf({D1, D2, D4}, {}),
    StoreOf({D2, D3, D5}, {E1}) }

QueryEmbeddings ==
  { [ length |-> 768, v |-> <<3, 4>> ], [ length |-> 768, v |-> <<-4, 3>> ],
    [ length |-> 768, v |-> <<4, 3>> ], [ length |-> 1536, v |-> <<3, 4>> ] }

QueryTexts == { "co2_sensor", "Sensor point", "is a" }

ContentTypes == { "xeto", "markdown" }

MaxTopK == 2

\* The widths search is called with: the shard widths and one other.
UnsupportedWidth == 512
Dimensions == ShardWidths \cup {UnsupportedWidth}

\* The weights a caller supplies, in tenths: 0 and 2.0.
WeightValues == {0, 20}

\* The options objects over the given keys: any of them may be missing.
OptionObjects(keys) == UNION { [K -> WeightValues] : K \in SUBSET keys }

-----------------------------------------------------------------------------
(* The strategies' search methods *)

NoError == "none"
NoCte == [ vector_results |-> {}, keyword_results |-> {}, bm25_results |-> {},
           combined_results |-> {} ]
NoCall == [ strategy |-> "none" ]

\* options.key || dflt : the default replaces a missing and a falsy weight.
OrDefault(options, key, dflt) ==
  IF key \in DOMAIN options /\ options[key] # 0 THEN options[key] ELSE dflt

\* Default weights, in tenths.
HybridVectorDefault == 7
HybridKeywordDefault == 3
CombinedVectorDefault == 5
CombinedKeywordDefault == 3
CombinedBm25Default == 2

\* The locals search computes before it sends its query.
VectorLocals(embedding, contentType, topK, dimension) ==
  [ strategy |-> "vector-search", embedding |-> embedding, queryText |-> "",
    contentType |-> contentType, topK |-> topK, dimension |-> dimension,
    options |-> <<>>, vectorWeight |-> 0, keywordWeight |-> 0, bm25Weight |-> 0,
    tableName |-> TableOf(dimension), keywordPattern |-> "" ]

HybridLocals(embedding, queryText, contentType, topK, dimension, options) ==
  [ strategy |-> "hybrid-search", embedding |-> embedding, queryText |-> queryText,
    contentType |-> contentType, topK |-> topK, dimension |-> dimension,
    options |-> options,
    vectorWeight |-> OrDefault(options, "vectorWeight", HybridVectorDefault),
    keywordWeight |-> OrDefault(options, "keywordWeight", HybridKeywordDefault),
    bm25Weight |-> 0,
    tableName |-> TableOf(dimension),
    keywordPattern |-> join(extractKeywords(queryText), " | ") ]

CombinedLocals(embedding, queryText, contentType, topK, dimension, options) ==
  [ strategy |-> "combined-search", embedding |-> embedding, queryText |-> queryText,
    contentType |-> contentType, topK |-> topK, dimension |-> dimension,
    options |-> options,
    vectorWeight |-> OrDefault(options, "vectorWeight", CombinedVectorDefault),
    keywordWeight |-> OrDefault(options, "keywordWeight", CombinedKeywordDefault),
    bm25Weight |-> OrDefault(options, "bm25Weight", CombinedBm25Default),
    tableName |-> TableOf(dimension),
    keywordPattern |-> join(extractKeywords(queryText), " | ") ]

\* await this.pool.query(query, [...]): the one query of a call goes out.
SendQuery(locals) ==
  /\ call' = locals
  /\ sent' = << [ table |-> locals.tableName, strategy |-> locals.strategy ] >>
  /\ pc' = "awaiting"
  /\ cte' = NoCte
  /\ rows' = <<>>
  /\ error' = NoError
  /\ UNCHANGED <<store, notSearch>>

\* What the store answers to the query of c when it cannot run it.
QueryError(c) ==
  IF c.tableName \notin DOMAIN store THEN "undefined_table"
  ELSE IF /\ Filtered(store[c.tableName], c.contentType) # {}
          /\ c.embedding.length # ColumnWidth(c.tableName)
    THEN "different_vector_dimensions"
  ELSE IF /\ c.strategy # "vector-search"
          /\ Filtered(store[c.tableName], c.contentType) # {}
          /\ c.topK > 0
          /\ 0 \in {c.vectorWeight, c.keywordWeight}
                     \cup (IF c.strategy = "combined-search" THEN {c.bm25Weight} ELSE {})
    THEN "division_by_zero"
  ELSE NoError

\* result.rows.map(...) of each strategy.
VectorOut(r) ==
  [ id |-> r.id, content |-> r.content, contentType |-> r.content_type,
    xetoSpecName |-> r.xeto_spec_name, xetoLibrary |-> r.xeto_library,
    similarity |-> r.vector_similarity ]

HybridOut(r, c) ==
  [ id |-> r.id, content |-> r.content, contentType |-> r.content_type,
    xetoSpecName |-> r.xeto_spec_name, xetoLibrary |-> r.xeto_library,
    vectorSimilarity |-> r.weighted_vector_similarity \div c.vectorWeight,
    keywordSimilarity |-> r.weighted_keyword_similarity \div c.keywordWeight,
    similarity |-> r.combined_score ]

CombinedOut(p, c) ==
  [ id |-> p.row.id, content |-> p.row.content, contentType |-> p.row.content_type,
    xetoSpecName |-> p.row.xeto_spec_name, xetoLibrary |-> p.row.xeto_library,
    vectorSimilarity |-> p.row.weighted_vector_similarity \div c.vectorWeight,
    keywordSimilarity |-> p.row.weighted_keyword_similarity \div c.keywordWeight,
    bm25Similarity |-> p.row.weighted_bm25_similarity \div c.bm25Weight,
    similarity |-> p.boosted_score ]

\* A search that consumes what it reads: the queried table is emptied.
ReturnedAndDeleted(list, ctes) ==
  /\ rows' = list
  /\ cte' = ctes
  /\ pc' = "returned"
  /\ store' = [ store EXCEPT ![call.tableName] = {} ]
  /\ UNCHANGED <<call, sent, error, notSearch>>

Returned(list, ctes) ==
  /\ rows' = list
  /\ cte' = ctes
  /\ pc' = "returned"
  /\ UNCHANGED <<store, call, sent, error, notSearch>>

Candidates(c) == Filtered(store[c.tableName], c.contentType)

\* VectorSearchStrategy.search
VectorSearch ==
  /\ pc = "idle"
  /\ \E embedding \in QueryEmbeddings, contentType \in ContentTypes,
        topK \in 0..MaxTopK, dimension \in Dimensions :
       SendQuery(VectorLocals(embedding, contentType, topK, dimension))

VectorReturns ==
  /\ pc = "awaiting" /\ call.strategy = "vector-search"
  /\ QueryError(call) = NoError
  /\ \E s \in OrderByDescLimit(ByDistance(Candidates(call), call.embedding.v), call.topK) :
       Returned([ i \in 1..Len(s) |-> VectorOut(s[i]) ],
                [ NoCte EXCEPT !.vector_results = Range(s) ])

\* HybridSearchStrategy.search
HybridSearch ==
  /\ pc = "idle"
  /\ \E embedding \in QueryEmbeddings, queryText \in QueryTexts,
        contentType \in ContentTypes, topK \in 0..MaxTopK, dimension \in Dimensions,
        options \in OptionObjects({"vectorWeight", "keywordWeight"}) :
       SendQuery(HybridLocals(embedding, queryText, contentType, topK, dimension, options))

HybridReturns ==
  /\ pc = "awaiting" /\ call.strategy = "hybrid-search"
  /\ QueryError(call) = NoError
  /\ \E v \in LimitSets(ByDistance(Candidates(call), call.embedding.v), call.topK * 2),
        k \in LimitSets(ByKeywordRank(Candidates(call), call.keywordPattern), call.topK * 2) :
       LET cr == HybridCombined(v, k, call.vectorWeight, call.keywordWeight) IN
       \E s \in OrderByDescLimit({ <<r.combined_score, r>> : r \in cr }, call.topK) :
         Returned([ i \in 1..Len(s) |-> HybridOut(s[i], call) ],
                  [ NoCte EXCEPT !.vector_results = v, !.keyword_results = k,
                                 !.combined_results = cr ])

\* CombinedSearchStrategy.search
CombinedSearch ==
  /\ pc = "idle"
  /\ \E embedding \in QueryEmbeddings, queryText \in QueryTexts,
        contentType \in ContentTypes, topK \in 0..MaxTopK, dimension \in Dimensions,
        options \in OptionObjects({"vectorWeight", "keywordWeight", "bm25Weight"}) :
       SendQuery(CombinedLocals(embedding, queryText, contentType, topK, dimension, options))

CombinedReturns ==
  /\ pc = "awaiting" /\ call.strategy = "combined-search"
  /\ QueryError(call) = NoError
  /\ \E v \in LimitSets(ByDistance(Candidates(call), call.embedding.v), call.topK * 3),
        k \in LimitSets(ByKeywordRank(Candidates(call), call.keywordPattern), call.topK * 3),
        b \in LimitSets(ByBm25Rank(Candidates(call), call.queryText), call.topK * 3) :
       LET cr == CombinedResults(vk_join(v, k), b, call.vectorWeight,
                                 call.keywordWeight, call.bm25Weight)
           pb == phrase_boosted(cr, call.queryText)
       IN
       \E s \in OrderByDescLimit({ <<p.boosted_score, p>> : p \in pb }, call.topK) :
         Returned([ i \in 1..Len(s) |-> CombinedOut(s[i], call) ],
                  [ vector_results |-> v, keyword_results |-> k,
                    bm25_results |-> b, combined_results |-> pb ])

\* A search that catches the error of pool.query and returns no rows.
CaughtAndReturned(e) ==
  /\ error' = e
  /\ pc' = "returned"
  /\ UNCHANGED <<store, call, sent, cte, rows, notSearch>>

\* pool.query rejects: the store could not run the query, or could not be
\* reached. search has no catch: the error is the caller's.
Threw(e) ==
  /\ error' = e
  /\ pc' = "threw"
  /\ UNCHANGED <<store, call, sent, cte, rows, notSearch>>

QueryFails ==
  /\ pc = "awaiting"
  /\ QueryError(call) # NoError
  /\ Threw(QueryError(call))

ConnectionFails ==
  /\ pc = "awaiting"
  /\ Threw("connection_error")

\* Each part of the program, when nothing of it runs.
SearchIdle ==
  /\ store = EmptyStore
  /\ pc = "idle"
  /\ call = NoCall
  /\ sent = <<>>
  /\ cte = NoCte
  /\ rows = <<>>
  /\ error = NoError

GraderIdle ==
  /\ llmResponse = ""
  /\ expected_keywords = <<>>
  /\ metrics = NoMetrics
  /\ graded = 0

KeywordIdle ==
  /\ extractInput = ""
  /\ extracted = NotExtracted

ChunkIdle ==
  /\ itemContent = ""
  /\ chunkSize = 1
  /\ chunks = <<>>
  /\ chunkStart = 0
  /\ chunkIndex = 0
  /\ cpc = "begin"

PoolIdle ==
  /\ pool = 0
  /\ poolState = <<>>
  /\ returned = <<>>
  /\ closing = {}
  /\ exited = FALSE

IngestIdle ==
  /\ stored = {}
  /\ queries = <<>>
  /\ qi = 0
  /\ pending = {}
  /\ ipc = "idle"
  /\ releases = 0
  /\ caught = "none"
  /\ thrown = "none"
  /\ batches = 0

BenchIdle ==
  /\ mode = "none"
  /\ runOptions = <<>>
  /\ bpc = "cli"
  /\ at = <<>>
  /\ results = <<>>
  /\ summary = <<>>
  /\ written = FALSE
  /\ openPools = 0
  /\ saved = <<>>
  /\ failed = {}
  /\ exitCode = -1

FusionIdle ==
  /\ fstore = EmptyStore
  /\ fcall = NoCall
  /\ fdone = <<>>
  /\ fbranch = [ vector_results |-> <<>>, keyword_results |-> <<>>, bm25_results |-> <<>> ]
  /\ fused = <<>>

LaterIdle ==
  /\ ChunkIdle
  /\ PoolIdle
  /\ IngestIdle
  /\ BenchIdle
  /\ FusionIdle

\* Every part idle, and every part left unchanged, but the named one.
IdleExcept(part) ==
  /\ IF part = "search" THEN TRUE ELSE SearchIdle
  /\ IF part = "grader" THEN TRUE ELSE GraderIdle
  /\ IF part = "keywords" THEN TRUE ELSE KeywordIdle
  /\ IF part = "chunks" THEN TRUE ELSE ChunkIdle
  /\ IF part = "pool" THEN TRUE ELSE PoolIdle
  /\ IF part = "ingest" THEN TRUE ELSE IngestIdle
  /\ IF part = "bench" THEN TRUE ELSE BenchIdle
  /\ IF part = "fusion" THEN TRUE ELSE FusionIdle

UnchangedExcept(part) ==
  /\ IF part = "search" THEN TRUE ELSE UNCHANGED svars
  /\ IF part = "grader" THEN TRUE ELSE UNCHANGED gvars
  /\ IF part = "keywords" THEN TRUE ELSE UNCHANGED kvars
  /\ IF part = "chunks" THEN TRUE ELSE UNCHANGED cvars
  /\ IF part = "pool" THEN TRUE ELSE UNCHANGED pvars
  /\ IF part = "ingest" THEN TRUE ELSE UNCHANGED ivars
  /\ IF part = "bench" THEN TRUE ELSE UNCHANGED bvars
  /\ IF part = "fusion" THEN TRUE ELSE UNCHANGED fvars

\* A strategy instance before search is called on it, over one of the stores;
\* no answer is graded.
Init ==
  /\ store \in Stores
  /\ pc = "idle"
  /\ call = NoCall
  /\ sent = <<>>
  /\ cte = NoCte
  /\ rows = <<>>
  /\ error = NoError
  /\ llmResponse = ""
  /\ expected_keywords = <<>>
  /\ metrics = NoMetrics
  /\ graded = 0
  /\ extractInput = ""
  /\ extracted = NotExtracted
  /\ LaterIdle

\* An answer and the expected keywords of its query, not graded yet; search
\* is not called.
GraderInit ==
  /\ llmResponse \in Answers
  /\ expected_keywords \in KeywordLists
  /\ metrics = NoMetrics
  /\ graded = 0
  /\ store = EmptyStore
  /\ pc = "idle"
  /\ call = NoCall
  /\ sent = <<>>
  /\ cte = NoCte
  /\ rows = <<>>
  /\ error = NoError
  /\ extractInput = ""
  /\ extracted = NotExtracted
  /\ LaterIdle

\* benchmarkQuery of the next query: createSearchStrategy makes a new
\* instance, over the same store.
NewStrategy ==
  /\ pc \in {"returned", "threw"}
  /\ pc' = "idle"
  /\ call' = NoCall
  /\ sent' = <<>>
  /\ cte' = NoCte
  /\ rows' = <<>>
  /\ error' = NoError
  /\ UNCHANGED <<store, notSearch>>

Next ==
  \/ VectorSearch \/ VectorReturns
  \/ HybridSearch \/ HybridReturns
  \/ CombinedSearch \/ CombinedReturns
  \/ QueryFails \/ ConnectionFails
  \/ NewStrategy

Spec == Init /\ [][Next]_vars

GraderNext == Grade

GraderSpec == GraderInit /\ [][GraderNext]_vars

\* A query text given to extractKeywords; nothing is searched or graded.
KeywordInit ==
  /\ extractInput \in TextsOf(MaxFragments)
  /\ extracted = NotExtracted
  /\ llmResponse = ""
  /\ expected_keywords = <<>>
  /\ metrics = NoMetrics
  /\ graded = 0
  /\ store = EmptyStore
  /\ pc = "idle"
  /\ call = NoCall
  /\ sent = <<>>
  /\ cte = NoCte
  /\ rows = <<>>
  /\ error = NoError
  /\ LaterIdle

KeywordNext == Extract

KeywordSpec == KeywordInit /\ [][KeywordNext]_vars

-----------------------------------------------------------------------------
(* Properties of the answer grader (checked under GraderSpec) *)

DenialSentences ==
  { "I don't have information about pressure sensors.",
    "No information about voltage!",
    "Not found regarding Pressure?" }

\* The answer is made of denial sentences only.
OnlyDenials(answer) ==
  /\ answer # ""
  /\ \A s \in Sentences \ DenialSentences : ~includes(answer, s)

\* C1: a response that only denies having the information is graded 0; in
\* particular "I don't have information about pressure sensors." with the
\* expected keyword "pressure" is graded 0.
C1_DenialIsGradedZero ==
  (graded > 0 /\ OnlyDenials(llmResponse)) => metrics.keywordsMatched = 0

\* C5: with an empty expected-keyword list the recorded
\* keywordMatchPercentage is a defined number, zero, never 0 / 0.
C5_EmptyKeywordsPercentageIsZero ==
  (graded > 0 /\ expected_keywords = <<>>) =>
    /\ metrics.keywordMatchPercentage.kind = "number"
    /\ metrics.keywordMatchPercentage.num = 0

\* word occurs in text at position i (1-based).
OccursAt(text, word, i) ==
  /\ i >= 1 /\ i + Len(word) - 1 <= Len(text)
  /\ SubSeq(text, i, i + Len(word) - 1) = word

Occurs(text, word) == \E i \in 1..Len(text) : OccursAt(text, word, i)

\* The expected keywords in lower case.
LowerKeywords == { toLowerCase(expected_keywords[i]) : i \in 1..Len(expected_keywords) }

\* How many of the expected keywords are in the set K of lowercased keywords.
NumberIn(K) ==
  Cardinality({ i \in 1..Len(expected_keywords) : toLowerCase(expected_keywords[i]) \in K })

\* In what follows t is the answer in lower case.
HasNegation(t) == \E p \in PatternSet : Occurs(t, p)

Present(t) == { k \in LowerKeywords : Occurs(t, k) }

\* C12: when the lowercased response contains no negation phrase, the count is
\* the number of expected keywords occurring in the response without regard to
\* case; the count of "The pressure sensor reads in Pa." for pressure and
\* voltage is 1.
C12_PlainPresenceCount ==
  LET t == toLowerCase(llmResponse) IN
  /\ (graded > 0 /\ ~HasNegation(t)) => metrics.keywordsMatched = NumberIn(Present(t))
  /\ (/\ graded > 0
      /\ llmResponse = "The pressure sensor reads in Pa."
      /\ expected_keywords = <<"pressure", "voltage">>) => metrics.keywordsMatched = 1

\* An answer without negation phrase graded for three keywords, two of them
\* present, one only up to case.
C12_Witness ==
  /\ graded > 0 /\ ~HasNegation(toLowerCase(llmResponse))
  /\ llmResponse = "The pressure sensor reads in Pa."
  /\ expected_keywords = <<"sensor", "pa", "voltage">>
  /\ metrics.keywordsMatched = 2

\* The negated constructions of a keyword: phrase + about/on/regarding + keyword.
Constructions(k) ==
  { p \o prep \o k : p \in PatternSet, prep \in {" about ", " on ", " regarding "} }

InConstruction(t, k) == \E c \in Constructions(k) : Occurs(t, c)

\* The keyword occurs at a position where it does not end a negated construction.
OccursOutsideConstruction(t, k) ==
  \E i \in 1..Len(t) :
    /\ OccursAt(t, k, i)
    /\ \A c \in Constructions(k) : ~OccursAt(t, c, i + Len(k) - Len(c))

\* The sentences of the response: its maximal runs of characters other than
\* . ! ? given by the positions where they start and end.
SentenceStarts(t) ==
  { i \in 1..Len(t) : /\ ~IsSentenceEnd(SubSeq(t, i, i))
                      /\ (i = 1 \/ IsSentenceEnd(SubSeq(t, i - 1, i - 1))) }
SentenceEnds(t) ==
  { j \in 1..Len(t) : /\ ~IsSentenceEnd(SubSeq(t, j, j))
                      /\ (j = Len(t) \/ IsSentenceEnd(SubSeq(t, j + 1, j + 1))) }
SentencesOf(t) ==
  LET ends == SentenceEnds(t) IN
  { SubSeq(t, i, CHOOSE j \in ends : j >= i /\ \A k \in ends : k >= i => j <= k) :
    i \in SentenceStarts(t) }

\* The sentences holding no negation phrase.
PositiveSentences(t) == { s \in SentencesOf(t) : \A p \in PatternSet : ~Occurs(s, p) }

\* The keywords occurring in the response, each in some sentence holding no
\* negation phrase.
CountedInSentences(t) ==
  LET positive == PositiveSentences(t) IN
  { k \in Present(t) : \E s \in positive : Occurs(s, k) }

\* C13: the pure-non-answer rule returns 0 exactly when the response has a
\* negation phrase and every expected keyword appears in a negated
\* construction and nowhere else; a keyword that also occurs outside one keeps
\* the rule from returning 0, and the keywords are then counted by sentence.
C13_PureNonAnswerIsExclusive ==
  LET t == toLowerCase(llmResponse) IN
  (graded > 0 /\ llmResponse # "" /\ expected_keywords # <<>> /\ HasNegation(t)) =>
    IF \A k \in LowerKeywords : InConstruction(t, k) /\ ~OccursOutsideConstruction(t, k)
      THEN metrics.keywordsMatched = 0
      ELSE metrics.keywordsMatched = NumberIn(CountedInSentences(t))

\* The rule as the code applies it: every keyword is in a negated construction.
RuleApplies(t) == HasNegation(t) /\ \A k \in LowerKeywords : InConstruction(t, k)

-----------------------------------------------------------------------------
(* Properties of extractKeywords (checked under KeywordSpec) *)

\* The tokens of a cleaned text: its maximal runs of characters other than
\* whitespace.
TokenStarts(t) ==
  { i \in 1..Len(t) : /\ ~IsWhitespace(SubSeq(t, i, i))
                      /\ (i = 1 \/ IsWhitespace(SubSeq(t, i - 1, i - 1))) }
TokenEnds(t) ==
  { j \in 1..Len(t) : /\ ~IsWhitespace(SubSeq(t, j, j))
                      /\ (j = Len(t) \/ IsWhitespace(SubSeq(t, j + 1, j + 1))) }
TokensOf(t) ==
  LET ends == TokenEnds(t) IN
  { SubSeq(t, i, CHOOSE j \in ends : j >= i /\ \A k \in ends : k >= i => j <= k) :
    i \in TokenStarts(t) }

\* The characters left in a token: \w without the upper case letters.
IsLowerWord(word) ==
  \A i \in 1..Len(word) : SubSeq(word, i, i) \in LowerSet \cup DigitSet \cup {"_"}

\* C11: extractKeywords returns, without duplicates, exactly the tokens of the
\* lowercased text stripped of its characters other than word characters and
\* whitespace that are longer than 2 and not stop words; every token is lower
\* case; the empty text gives none, "The Co2Sensor is a sensor." gives
\* co2sensor and sensor.
C11_ExtractKeywords ==
  extracted # NotExtracted =>
    LET keywords == extracted.keywords
        clean    == removePunctuation(toLowerCase(extractInput))
    IN  /\ \A i, j \in 1..Len(keywords) : i # j => keywords[i] # keywords[j]
        /\ \A i \in 1..Len(keywords) :
             /\ IsLowerWord(keywords[i])
             /\ Len(keywords[i]) > 2
             /\ keywords[i] \notin {"a", "an", "the", "and", "or", "but", "is", "are",
                                    "in", "on", "at", "to", "for", "with"}
        /\ Range(keywords) = { w \in TokensOf(clean) : Len(w) > 2 /\ w \notin stopWords }
        /\ Len(clean) <= Len(extractInput)
        /\ extractInput = "" => keywords = <<>>
        /\ extractInput = "The Co2Sensor is a sensor." =>
             Range(keywords) = {"co2sensor", "sensor"}

\* The example followed by a keyword it already has, with punctuation and a
\* run of whitespace in between.
C11_Witness ==
  /\ extracted # NotExtracted
  /\ extractInput = "The Co2Sensor is a sensor. \t  co2_Sensor! Sensor"
  /\ extracted.keywords = <<"co2sensor", "sensor", "co2_sensor">>


-----------------------------------------------------------------------------
(* Properties of the retrieval strategies (checked under Spec) *)

Finished(strategy) == pc = "returned" /\ call.strategy = strategy

Supplied(key) == key \in DOMAIN call.options

\* The document of the queried shard a row or candidate stands for.
ShardDocs == store[TableOf(call.dimension)]
DocOf(id) == CHOOSE d \in ShardDocs : d.id = id

RowIds(list) == [ i \in 1..Len(list) |-> list[i].id ]

NonIncreasing(list) ==
  \A i \in 1..(Len(list) - 1) : list[i].similarity >= list[i + 1].similarity

Min(a, b) == IF a <= b THEN a ELSE b

\* T holds n of the rows standing for the documents F (all of them when F
\* has fewer), and no document left out scores higher than one taken.
IsTopOf(T, F, n, Score(_)) ==
  /\ Ids(T) \subseteq { d.id : d \in F }
  /\ Cardinality(T) = Cardinality(Ids(T))
  /\ Cardinality(T) = Min(n, Cardinality(F))
  /\ \A t \in T : \A d \in F : d.id \notin Ids(T) => Score(d) <= Score(DocOf(t.id))

\* The lists Vector search may return for the arguments of the call.
VectorRankings ==
  { RowIds(s) : s \in OrderByDescLimit(ByDistance(Candidates(call), call.embedding.v),
                                       call.topK) }

C3_UnsupportedWidthSendsNoQuery ==
  (pc # "idle" /\ call.dimension \notin ShardWidths) => sent = <<>>

\* C3 as amended: with an unsupported width search validates nothing; its one
\* query goes to the store for table documents_<width>, and the call never
\* returns rows: it fails with the store's error.
C3_UnsupportedWidthFailsInStore ==
  (pc # "idle" /\ call.dimension \notin ShardWidths) =>
    /\ Len(sent) = 1
    /\ sent[1].table = "documents_" \o ToString(call.dimension)
    /\ sent[1].table \notin DOMAIN store
    /\ pc \in {"awaiting", "threw"}
    /\ rows = <<>>
    /\ pc = "threw" => error \in {"undefined_table", "connection_error"}

C3_Witness ==
  /\ pc = "threw" /\ call.dimension \notin ShardWidths
  /\ error = "undefined_table" /\ Len(sent) = 1

\* C4: in Combined search a candidate whose content contains the query text
\* as a case-insensitive literal substring scores 1.2 times its weighted sum,
\* and any other candidate scores its weighted sum exactly.
C4_BoostIffLiteralSubstring ==
  Finished("combined-search") =>
    \A p \in cte.combined_results :
      IF includes(toLowerCase(p.row.content), toLowerCase(call.queryText))
        THEN p.boosted_score * 10 = p.row.combined_score * 12
        ELSE p.boosted_score = p.row.combined_score * 10

\* C6: the list Vector search returns has at most topK rows, in order of
\* non-increasing similarity, each a document of the selected shard whose
\* content type is the requested one (with its similarity to the query).
C6_VectorResultShape ==
  Finished("vector-search") =>
    /\ Len(rows) <= call.topK
    /\ NonIncreasing(rows)
    /\ \A i \in 1..Len(rows) :
         \E d \in ShardDocs :
           /\ d.id = rows[i].id
           /\ d.content_type = call.contentType
           /\ rows[i].contentType = call.contentType
           /\ rows[i].similarity = 100 - CosineDistance(d.embedding, call.embedding.v)

\* The shard holds documents of another type and more matching documents
\* than topK, and a full list came back.
C6_Witness ==
  /\ Finished("vector-search")
  /\ call.topK = MaxTopK /\ Len(rows) = call.topK
  /\ Cardinality(Candidates(call)) > call.topK
  /\ \E d \in ShardDocs : d.content_type # call.contentType
  /\ \E d \in Candidates(call) :
       100 - CosineDistance(d.embedding, call.embedding.v) < rows[call.topK].similarity


\* The scores of a document in the three branches, as the store computes them.
vectorScore(d) == 100 - CosineDistance(d.embedding, call.embedding.v)
lexicalScore(d) == ts_rank_cd_or(to_tsvector(d.content), queryLexemes(call.keywordPattern))
relevanceScore(d) == ts_rank_cd_bm25(d, queryLexemes(call.queryText))

LexicalMatches(F) ==
  { d \in F : MatchesAny(to_tsvector(d.content), queryLexemes(call.keywordPattern)) }

\* The score of candidate id in a branch: 0 when the branch does not hold it.
BranchScore(branch, id, Score(_)) == IF id \in Ids(branch) THEN Score(DocOf(id)) ELSE 0

\* C7: in Hybrid search the candidates are the union by id of the top 2 x topK
\* documents by vector score and the top 2 x topK lexical matches; a candidate
\* of one branch only has score 0 in the other, and every candidate's score is
\* vectorScore x vectorWeight + lexicalScore x lexicalWeight.
C7_HybridCandidatesAndScore ==
  Finished("hybrid-search") =>
    LET F  == Candidates(call)
        V  == cte.vector_results
        K  == cte.keyword_results
        CR == cte.combined_results
    IN  /\ IsTopOf(V, F, 2 * call.topK, vectorScore)
        /\ IsTopOf(K, LexicalMatches(F), 2 * call.topK, lexicalScore)
        /\ Ids(CR) = Ids(V) \cup Ids(K)
        /\ Cardinality(CR) = Cardinality(Ids(CR))
        /\ \A r \in CR :
             r.combined_score =
               BranchScore(V, r.id, vectorScore) * call.vectorWeight
                 + BranchScore(K, r.id, lexicalScore) * call.keywordWeight
        /\ \A i \in 1..Len(rows) :
             \E r \in CR : r.id = rows[i].id /\ r.combined_score = rows[i].similarity

\* Both branches were truncated, and each holds a candidate the other lacks.
C7_Witness ==
  /\ Finished("hybrid-search") /\ rows # <<>>
  /\ Cardinality(Candidates(call)) > 2 * call.topK
  /\ Cardinality(LexicalMatches(Candidates(call))) > 2 * call.topK
  /\ Ids(cte.vector_results) \ Ids(cte.keyword_results) # {}
  /\ Ids(cte.keyword_results) \ Ids(cte.vector_results) # {}
  /\ \E r \in cte.combined_results :
       r.id \notin Ids(cte.vector_results) /\ r.combined_score > 0

\* C8: in Combined search the candidates are the union by id of the top
\* 3 x topK documents of each of the three branches; a score absent from a
\* branch counts as 0, and every candidate's unboosted score is
\* vectorScore x w_v + lexicalScore x w_l + relevanceScore x w_r.
C8_CombinedCandidatesAndScore ==
  Finished("combined-search") =>
    LET F  == Candidates(call)
        V  == cte.vector_results
        K  == cte.keyword_results
        B  == cte.bm25_results
        CR == { p.row : p \in cte.combined_results }
    IN  /\ IsTopOf(V, F, 3 * call.topK, vectorScore)
        /\ IsTopOf(K, LexicalMatches(F), 3 * call.topK, lexicalScore)
        /\ IsTopOf(B, F, 3 * call.topK, relevanceScore)
        /\ Ids(CR) = Ids(V) \cup Ids(K) \cup Ids(B)
        /\ Cardinality(CR) = Cardinality(Ids(CR))
        /\ Cardinality(cte.combined_results) = Cardinality(CR)
        /\ \A r \in CR :
             r.combined_score =
               BranchScore(V, r.id, vectorScore) * call.vectorWeight
                 + BranchScore(K, r.id, lexicalScore) * call.keywordWeight
                 + BranchScore(B, r.id, relevanceScore) * call.bm25Weight

\* The vector and relevance branches were truncated and differ, and some
\* candidate is in the relevance branch only.
C8_Witness ==
  /\ Finished("combined-search") /\ rows # <<>>
  /\ Cardinality(Candidates(call)) > 3 * call.topK
  /\ Ids(cte.vector_results) # Ids(cte.bm25_results)
  /\ Ids(cte.bm25_results) \ (Ids(cte.vector_results) \cup Ids(cte.keyword_results)) # {}
  /\ Ids(cte.vector_results) \ Ids(cte.keyword_results) # {}

\* The final score of each candidate of the finished call, by id.
FinalScores ==
  IF call.strategy = "hybrid-search"
    THEN { <<r.id, r.combined_score>> : r \in cte.combined_results }
    ELSE { <<p.row.id, p.boosted_score>> : p \in cte.combined_results }

\* C9: the lists Hybrid and Combined search return have at most topK rows, in
\* order of non-increasing final score, and no candidate left out has a
\* strictly higher final score than a returned one.
C9_RankedListShape ==
  (Finished("hybrid-search") \/ Finished("combined-search")) =>
    /\ Len(rows) <= call.topK
    /\ NonIncreasing(rows)
    /\ \A i \in 1..Len(rows) : <<rows[i].id, rows[i].similarity>> \in FinalScores
    /\ \A i, j \in 1..Len(rows) : i # j => rows[i].id # rows[j].id
    /\ \A c \in FinalScores :
         (\A i \in 1..Len(rows) : rows[i].id # c[1])
           => \A i \in 1..Len(rows) : c[2] <= rows[i].similarity

\* A full list of distinct scores came back and a candidate was left out.
C9_Witness ==
  /\ Finished("combined-search")
  /\ call.topK = MaxTopK /\ Len(rows) = call.topK
  /\ rows[1].similarity > rows[2].similarity
  /\ Cardinality(FinalScores) > call.topK

\* The weight the caller asked for: the supplied one, else the default.
Requested(key, dflt) == IF Supplied(key) THEN call.options[key] ELSE dflt

\* C10: every weight supplied in the options is the weight of the score
\* formula, whatever its value, and the defaults are the weights of the keys
\* not supplied.
C10_SuppliedWeightsUsedUnchanged ==
  /\ (pc # "idle" /\ call.strategy = "hybrid-search") =>
       /\ call.vectorWeight = Requested("vectorWeight", HybridVectorDefault)
       /\ call.keywordWeight = Requested("keywordWeight", HybridKeywordDefault)
  /\ (pc # "idle" /\ call.strategy = "combined-search") =>
       /\ call.vectorWeight = Requested("vectorWeight", CombinedVectorDefault)
       /\ call.keywordWeight = Requested("keywordWeight", CombinedKeywordDefault)
       /\ call.bm25Weight = Requested("bm25Weight", CombinedBm25Default)


\* The lists the store may answer to the Vector query of the call.
VectorOutcomes ==
  OrderByDescLimit(ByDistance(Candidates(call), call.embedding.v), call.topK)

\* Another candidate has the similarity of row r.
Tied(r) ==
  \E d \in Candidates(call) : d.id # r.id /\ vectorScore(d) = r.similarity

\* C16 as stated: the arguments and the store determine the list Vector search
\* returns, ties at the cut-off included: every answer to the same call is
\* the list returned.
C16_VectorSearchDeterministic ==
  Finished("vector-search") => \A s \in VectorOutcomes : RowIds(s) = RowIds(rows)

\* C16 as amended: the arguments and the store determine the similarities of
\* the list position by position, and the document at every position whose
\* similarity no other candidate has; documents of equal similarity come in
\* any order, and at the cut-off any of them is the one returned.
C16_VectorSearchDeterministicUpToTies ==
  Finished("vector-search") =>
    \A s \in VectorOutcomes :
      /\ Len(s) = Len(rows)
      /\ \A i \in 1..Len(rows) :
           /\ s[i].vector_similarity = rows[i].similarity
           /\ (s[i].id # rows[i].id => Tied(rows[i]))

\* Two documents are tied at the cut-off and a third, untied, follows them.
C16_Witness ==
  /\ Finished("vector-search")
  /\ Cardinality(VectorOutcomes) > 1
  /\ call.topK = 1 /\ Len(rows) = 1 /\ Tied(rows[1])
  /\ \E d \in Candidates(call) : vectorScore(d) < rows[1].similarity

\* The stored documents of the requested type whose embedding is the query's.
ExactMatches == { d \in Candidates(call) : d.embedding = call.embedding.v }

\* C17 as stated: a stored document of the requested type whose embedding is
\* the query vector comes first, with similarity 1, when topK >= 1.
C17_ExactMatchComesFirst ==
  (Finished("vector-search") /\ call.topK >= 1) =>
    \A d \in ExactMatches : rows[1].id = d.id /\ rows[1].similarity = 100

\* C17 as amended: the first row then has similarity 1, and it is that
\* document unless another document of the type also has similarity 1 (the
\* same embedding, or one in the same direction), in which case any of them
\* may come first.
C17_ExactMatchComesFirstUpToTies ==
  (Finished("vector-search") /\ call.topK >= 1) =>
    \A d \in ExactMatches :
      /\ rows # <<>>
      /\ rows[1].similarity = 100
      /\ vectorScore(DocOf(rows[1].id)) = 100
      /\ rows[1].id # d.id =>
           \E e \in Candidates(call) : e.id # d.id /\ vectorScore(e) = 100

\* The document with the query's embedding came first, ahead of others.
C17_Witness ==
  /\ Finished("vector-search") /\ call.topK >= 1
  /\ \E d \in ExactMatches : rows[1].id = d.id /\ ~Tied(rows[1])
  /\ Len(rows) > 1 /\ rows[2].similarity < 100

\* C18: in Hybrid search, when extractKeywords finds no term in the query
\* text, the lexical branch has no candidate and the list returned is a
\* Vector ranking cut to topK, with scores vectorScore x vectorWeight; the
\* store does not reject the query for its empty pattern.
C18_NoKeywordsIsVectorRanking ==
  (call.strategy = "hybrid-search" /\ extractKeywords(call.queryText) = <<>>) =>
    /\ pc = "returned" =>
         /\ cte.keyword_results = {}
         /\ Ids(cte.combined_results) = Ids(cte.vector_results)
         /\ RowIds(rows) \in VectorRankings
         /\ \A i \in 1..Len(rows) :
              rows[i].similarity = vectorScore(DocOf(rows[i].id)) * call.vectorWeight
    /\ pc = "threw" =>
         error \in {"connection_error", "undefined_table", "different_vector_dimensions"}

\* A query text of stop words only, over documents that hold those words.
C18_Witness ==
  /\ Finished("hybrid-search") /\ extractKeywords(call.queryText) = <<>>
  /\ call.queryText = "is a"
  /\ \E d \in Candidates(call) : includes(d.content, call.queryText)
  /\ Len(rows) = MaxTopK /\ Cardinality(Candidates(call)) > MaxTopK

\* C19: a store error aborts the search call of any strategy: the error is
\* thrown to the caller, the one query sent is not sent again, and no list,
\* not even a partial one, is returned.
C19_StoreErrorAbortsCall ==
  /\ error # NoError <=> pc = "threw"
  /\ pc = "threw" =>
       /\ rows = <<>>
       /\ cte = NoCte
       /\ Len(sent) = 1
       /\ error \in {"connection_error", "undefined_table",
                     "different_vector_dimensions", "division_by_zero"}
  /\ pc \in {"awaiting", "returned"} => Len(sent) = 1

\* The store rejected the query of a Combined search over a shard that holds
\* candidates.
C19_Witness ==
  /\ pc = "threw" /\ call.strategy = "combined-search"
  /\ error = "different_vector_dimensions"
  /\ Candidates(call) # {}

-----------------------------------------------------------------------------
(* createChunks (dbDocs/database-builder-multi-dimension.js), one item *)

\* Math.min, and Math.ceil of a quotient of non-negative integers.
MathMin(a, b) == IF a <= b THEN a ELSE b
CeilDiv(a, b) == (a + b - 1) \div b

\* content.slice(from, to) with 0-based bounds.
slice(s, from, to) == SubSeq(s, from + 1, to)

\* Math.min(100, Math.floor(chunkSize * 0.1))
OverlapCap == 100
overlapOf(size) == MathMin(OverlapCap, size \div 10)

\* The contents and chunk sizes createChunks is applied to.
MaxContent == 24
MaxChunkSize == 12
ContentText == "abcdefghijklmnopqrstuvwxyzABCDEFGHIJKLMNOPQRSTUVWXYZ"
Contents == { SubSeq(ContentText, 1, n) : n \in 0..MaxContent }

ChunkInit ==
  /\ itemContent \in Contents
  /\ chunkSize \in 1..MaxChunkSize
  /\ chunks = <<>>
  /\ chunkStart = 0
  /\ chunkIndex = 0
  /\ cpc = "begin"
  /\ IdleExcept("chunks")

\* Lines 418-428: the content fits in one chunk.
ChunkWhole ==
  /\ cpc = "begin"
  /\ Len(itemContent) <= chunkSize
  /\ chunks' = <<[ content |-> itemContent, chunkIndex |-> 0, totalChunks |-> 1,
                   chunkStart |-> 0, chunkEnd |-> Len(itemContent) ]>>
  /\ cpc' = "done"
  /\ UNCHANGED <<itemContent, chunkSize, chunkStart, chunkIndex>>
  /\ UnchangedExcept("chunks")

\* Lines 431-433: the loop is entered.
ChunkLoopStart ==
  /\ cpc = "begin"
  /\ Len(itemContent) > chunkSize
  /\ chunkStart' = 0
  /\ chunkIndex' = 0
  /\ cpc' = "loop"
  /\ UNCHANGED <<itemContent, chunkSize, chunks>>
  /\ UnchangedExcept("chunks")

\* Lines 435-455: one turn of the while loop.
ChunkStep ==
  /\ cpc = "loop"
  /\ IF chunkStart < Len(itemContent)
       THEN LET overlap == overlapOf(chunkSize)
                end == MathMin(chunkStart + chunkSize, Len(itemContent))
            IN  /\ chunks' = Append(chunks,
                       [ content |-> slice(itemContent, chunkStart, end),
                         chunkIndex |-> chunkIndex,
                         totalChunks |-> CeilDiv(Len(itemContent), chunkSize - overlap),
                         chunkStart |-> chunkStart, chunkEnd |-> end ])
                /\ chunkStart' = end - overlap
                /\ chunkIndex' = chunkIndex + 1
                /\ cpc' = IF end >= Len(itemContent) THEN "done" ELSE "loop"
       ELSE /\ cpc' = "done"
            /\ UNCHANGED <<chunks, chunkStart, chunkIndex>>
  /\ UNCHANGED <<itemContent, chunkSize>>
  /\ UnchangedExcept("chunks")

ChunkNext == ChunkWhole \/ ChunkLoopStart \/ ChunkStep

ChunkSpec == ChunkInit /\ [][ChunkNext]_vars

(* Properties of createChunks (checked under ChunkSpec) *)

\* C30: createChunks ends with chunks of at most chunkSize characters that
\* cover the content in order, consecutive chunks overlapping by
\* min(100, floor(chunkSize x 0.1)) characters, each recording as totalChunks
\* the number of chunks made.
C30_ChunksCoverAndCount ==
  cpc = "done" =>
    /\ chunks # <<>>
    /\ \A k \in 1..Len(chunks) :
         /\ Len(chunks[k].content) <= chunkSize
         /\ chunks[k].content = SubSeq(itemContent, chunks[k].chunkStart + 1, chunks[k].chunkEnd)
         /\ chunks[k].chunkIndex = k - 1
         /\ chunks[k].totalChunks = Len(chunks)
    /\ chunks[1].chunkStart = 0
    /\ chunks[Len(chunks)].chunkEnd = Len(itemContent)
    /\ \A k \in 1..(Len(chunks) - 1) :
         chunks[k].chunkEnd - chunks[k + 1].chunkStart =
           (IF chunkSize \div 10 < 100 THEN chunkSize \div 10 ELSE 100)

-----------------------------------------------------------------------------
(* The shared connection module (unnamed/part_005): pool, initializePool,   *)
(* getPool, closePool and the signal handlers                               *)

\* How many pools the module makes in one behaviour.
MaxPools == 3

\* new Pool(dbConfig): one more pool, live.
NewPool == Len(poolState) + 1

\* What a call hands back: the pool and the state that pool is in.
Handed(fn, p, states) == <<[ call |-> fn, pool |-> p, state |-> states[p] ]>>

PoolInit ==
  /\ pool = 0
  /\ poolState = <<>>
  /\ returned = <<>>
  /\ closing = {}
  /\ exited = FALSE
  /\ IdleExcept("pool")

\* initializePool(): makes the pool when the variable is null; returns it.
\* fn names the call that answers with it.
initializePool(fn) ==
  IF pool = 0
    THEN /\ Len(poolState) < MaxPools
         /\ pool' = NewPool
         /\ poolState' = Append(poolState, "live")
         /\ returned' = Handed(fn, NewPool, poolState')
    ELSE /\ returned' = Handed(fn, pool, poolState)
         /\ UNCHANGED <<pool, poolState>>

InitializePool ==
  /\ ~exited
  /\ initializePool("initializePool")
  /\ UNCHANGED <<closing, exited>>
  /\ UnchangedExcept("pool")

\* getPool(): initializePool() when the variable is null, else the variable.
GetPool ==
  /\ ~exited
  /\ IF pool = 0
       THEN initializePool("getPool")
       ELSE /\ returned' = Handed("getPool", pool, poolState)
            /\ UNCHANGED <<pool, poolState>>
  /\ UNCHANGED <<closing, exited>>
  /\ UnchangedExcept("pool")

\* closePool() up to its await: nothing when the variable is null; pool.end()
\* on a live pool starts ending it and the call is suspended; pool.end() on a
\* pool that is ending or ended rejects, and the call throws with the variable
\* as it was. byHandler tells a signal handler's call, which exits the process
\* after closePool: at once when closePool had nothing to do or has thrown.
ClosePoolCall(byHandler) ==
  /\ ~exited
  /\ IF pool # 0 /\ poolState[pool] = "live"
       THEN /\ poolState' = [poolState EXCEPT ![pool] = "ending"]
            /\ closing' = closing \cup {[ pool |-> pool, exit |-> byHandler ]}
            /\ UNCHANGED exited
       ELSE /\ exited' = byHandler
            /\ UNCHANGED <<poolState, closing>>
  /\ UNCHANGED <<pool, returned>>
  /\ UnchangedExcept("pool")

ClosePool == ClosePoolCall(FALSE)

\* The SIGINT and SIGTERM handlers.
Signal == ClosePoolCall(TRUE)

\* The pool has ended: pool.end() of a suspended call is settled.
PoolEnds ==
  /\ ~exited
  /\ \E c \in closing :
       /\ poolState[c.pool] = "ending"
       /\ poolState' = [poolState EXCEPT ![c.pool] = "ended"]
  /\ UNCHANGED <<pool, returned, closing, exited>>
  /\ UnchangedExcept("pool")

\* closePool() after its await: pool = null; a handler then exits.
ClosePoolResumes ==
  /\ ~exited
  /\ \E c \in closing :
       /\ poolState[c.pool] = "ended"
       /\ pool' = 0
       /\ closing' = closing \ {c}
       /\ exited' = c.exit
  /\ UNCHANGED <<poolState, returned>>
  /\ UnchangedExcept("pool")

PoolNext ==
  \/ InitializePool
  \/ GetPool
  \/ ClosePool
  \/ Signal
  \/ PoolEnds
  \/ ClosePoolResumes

PoolSpec == PoolInit /\ [][PoolNext]_vars

(* Properties of the connection module (checked under PoolSpec) *)

LivePools == { p \in 1..Len(poolState) : poolState[p] = "live" }

\* C29: under any interleaving of initializePool, getPool and closePool, at
\* most one pool is live at a time, and no call hands back a pool that
\* closePool has started to end.
C29_OnePoolNeverAnEndingOne ==
  /\ Cardinality(LivePools) <= 1
  /\ returned # <<>> => returned[1].state = "live"

-----------------------------------------------------------------------------
(* Ingestion: storeMultiDimensionEmbeddingsInPostgres                       *)
(* (dbDocs/database-builder-multi-dimension.js) over executeTransaction     *)
(* (unnamed/part_005)                                                       *)

\* The widths that have a table.
Width768 == 768
Width1536 == 1536
Width3072 == 3072

\* A table choice that would send every other length to documents_1536.
tableNameWithDefault(dimensions) ==
  IF dimensions = Width3072 THEN Width3072
  ELSE IF dimensions = Width768 THEN Width768
  ELSE Width1536

\* The table an embedding of that many dimensions goes to: the width in the
\* table's name, 0 where the code throws 'Unsupported embedding dimensions'.
tableName(dimensions) ==
  IF dimensions = Width1536 THEN Width1536
  ELSE IF dimensions = Width3072 THEN Width3072
  ELSE IF dimensions = Width768 THEN Width768
  ELSE 0

\* The batches handed in: up to MaxBatch items, each an embedding of one of
\* the lengths below (only the length of the vector is looked at), MaxBatches
\* batches in one behaviour.
MaxBatch == 2
MaxBatches == 2
EmbeddingLengths == {Width768, Width1536, Width3072, UnsupportedWidth}
BatchLengths == UNION { [1..n -> EmbeddingLengths] : n \in 0..MaxBatch }

\* The content items of a batch are numbered on from those of earlier batches.
FirstId(n) == n * MaxBatch

\* Lines 349-403: the INSERT of each item, in order; <<>> with a throw when
\* some item's embedding has no table.
Unsupported(lengths) == \E i \in 1..Len(lengths) : tableName(lengths[i]) = 0
InsertsOf(lengths, first) ==
  [ i \in 1..Len(lengths) |->
      [ table |-> tableName(lengths[i]), id |-> first + i, length |-> lengths[i] ] ]

IngestInit ==
  /\ stored = {}
  /\ queries = <<>>
  /\ qi = 0
  /\ pending = {}
  /\ ipc = "idle"
  /\ releases = 0
  /\ caught = "none"
  /\ thrown = "none"
  /\ batches = 0
  /\ IdleExcept("ingest")

\* storeMultiDimensionEmbeddingsInPostgres up to the call of
\* executeTransaction (a new call may follow one that has ended).
StoreBatch ==
  /\ ipc \in {"idle", "done"}
  /\ batches < MaxBatches
  /\ \E lengths \in BatchLengths :
       IF Unsupported(lengths)
         THEN /\ queries' = <<>>
              /\ thrown' = "dimensions"
              /\ ipc' = "done"
         ELSE /\ queries' = InsertsOf(lengths, FirstId(batches))
              /\ thrown' = "none"
              /\ ipc' = "connect"
  /\ batches' = batches + 1
  /\ qi' = 0
  /\ pending' = {}
  /\ releases' = 0
  /\ caught' = "none"
  /\ UNCHANGED stored
  /\ UnchangedExcept("ingest")

\* Line 280: const client = await getPool().connect(), outside the try.
Connect ==
  /\ ipc = "connect"
  /\ \E ok \in BOOLEAN :
       IF ok THEN ipc' = "begin" /\ UNCHANGED thrown
             ELSE ipc' = "done" /\ thrown' = "connect"
  /\ UNCHANGED <<stored, queries, qi, pending, releases, caught, batches>>
  /\ UnchangedExcept("ingest")

\* Line 282: await client.query('BEGIN').
Begin ==
  /\ ipc = "begin"
  /\ \E ok \in BOOLEAN :
       IF ok THEN ipc' = "query" /\ UNCHANGED caught
             ELSE ipc' = "rollback" /\ caught' = "begin"
  /\ UNCHANGED <<stored, queries, qi, pending, releases, thrown, batches>>
  /\ UnchangedExcept("ingest")

\* Lines 285-288: the next query of the loop.
Query ==
  /\ ipc = "query"
  /\ qi < Len(queries)
  /\ \E ok \in BOOLEAN :
       IF ok THEN /\ pending' = pending \cup {queries[qi + 1]}
                  /\ qi' = qi + 1
                  /\ UNCHANGED <<ipc, caught>>
             ELSE /\ ipc' = "rollback"
                  /\ caught' = "query"
                  /\ UNCHANGED <<pending, qi>>
  /\ UNCHANGED <<stored, queries, releases, thrown, batches>>
  /\ UnchangedExcept("ingest")

\* Lines 290-291: await client.query('COMMIT'); return results.
Commit ==
  /\ ipc = "query"
  /\ qi = Len(queries)
  /\ \E ok \in BOOLEAN :
       IF ok THEN /\ stored' = stored \cup pending
                  /\ pending' = {}
                  /\ ipc' = "release"
                  /\ UNCHANGED caught
             ELSE /\ ipc' = "rollback"
                  /\ caught' = "commit"
                  /\ UNCHANGED <<stored, pending>>
  /\ UNCHANGED <<queries, qi, releases, thrown, batches>>
  /\ UnchangedExcept("ingest")

\* Lines 292-295: await client.query('ROLLBACK'); throw error. When the
\* ROLLBACK is itself rejected (the connection is gone, and the store drops
\* the transaction), its rejection leaves the catch block in place of error.
Rollback ==
  /\ ipc = "rollback"
  /\ \E ok \in BOOLEAN :
       thrown' = IF ok THEN caught ELSE "rollback"
  /\ pending' = {}
  /\ ipc' = "release"
  /\ UNCHANGED <<stored, queries, qi, releases, caught, batches>>
  /\ UnchangedExcept("ingest")

\* Lines 296-298: finally { client.release() }.
Release ==
  /\ ipc = "release"
  /\ releases' = releases + 1
  /\ ipc' = "done"
  /\ UNCHANGED <<stored, queries, qi, pending, caught, thrown, batches>>
  /\ UnchangedExcept("ingest")

IngestNext ==
  \/ StoreBatch
  \/ Connect
  \/ Begin
  \/ Query
  \/ Commit
  \/ Rollback
  \/ Release

IngestSpec == IngestInit /\ [][IngestNext]_vars

(* Properties of ingestion (checked under IngestSpec) *)

RowsOf(q) == { q[i] : i \in 1..Len(q) }
StoredAndPending == stored \cup pending

\* C23: every stored document is in exactly one shard, the shard of the
\* width its embedding has, and no embedding of a length other than 768,
\* 1536 or 3072 is stored in any shard.
C23_OneShardByWidth ==
  \A r \in StoredAndPending :
    /\ r.length \in {768, 1536, 3072}
    /\ r.table = r.length
    /\ \A o \in StoredAndPending : o.id = r.id => o.table = r.table

\* Two shards hold documents, and a batch with an embedding of another
\* length has been turned down.
C23_Witness ==
  /\ \E r, o \in stored : r.table # o.table
  /\ thrown = "dimensions"
  /\ ipc = "done"

\* C26: executeTransaction commits all of the batch when every query
\* succeeds, commits none of it and rethrows the error when one fails,
\* and releases its client exactly once either way.
C26_AtomicRethrowsReleasesOnce ==
  (ipc = "done" /\ thrown \notin {"dimensions", "connect"}) =>
    /\ releases = 1
    /\ pending = {}
    /\ caught = "none" => thrown = "none" /\ RowsOf(queries) \subseteq stored
    /\ caught # "none" => thrown = caught /\ RowsOf(queries) \cap stored = {}

-----------------------------------------------------------------------------
(* The benchmark run: the command line of unnamed/part_003 (run-benchmark), *)
(* runBenchmark, benchmarkQuery, saveBenchmarkResult and generateSummary   *)
(* of scripts/rag-benchmark.js                                              *)

\* A getEmbeddingDimension that would give unknown models a width.
getEmbeddingDimensionWithDefault(model) ==
  IF includes(model, "text-embedding-3-large") THEN 3072
  ELSE IF includes(model, "gemini-embedding") THEN 768
  ELSE 1536

\* getEmbeddingDimension: by substring of the model's name, 0 for null.
getEmbeddingDimension(model) ==
  IF includes(model, "text-embedding-3-small") \/ includes(model, "text-embedding-004")
    THEN 1536
  ELSE IF includes(model, "text-embedding-3-large") THEN 3072
  ELSE IF includes(model, "gemini-embedding") THEN 768
  ELSE 0

\* The options of a run: the preset's, or those built from the command line.
\* The test_queries table holds at least numQueries queries, so that
\* getTestQueries yields numQueries of them.
MaxQueries == 2
OptionSets ==
  { [ searchStrategies |-> o[1], llmModels |-> o[2], embeddingModels |-> o[3],
      contentTypes |-> o[4], numQueries |-> n ] :
    o \in { << <<"vector-search">>, <<"gpt-4o-mini">>,
               <<"text-embedding-3-small">>, <<"xeto">> >>,
            << <<"vector-search", "hybrid-search">>, <<"gpt-4o-mini">>,
               <<"nomic-embed-text", "text-embedding-3-large">>, <<"documentation">> >>,
            << <<"combined-search">>, <<"gpt-4o-mini", "gemini-1.5-flash">>,
               <<"gemini-embedding-exp-03-07", "nomic-embed-text">>, <<"markdown">> >>,
            << <<"hybrid-search">>, <<"gpt-4o-mini">>,
               <<"openai_text-embedding-3-small">>, <<"xeto", "markdown">> >> },
    n \in 1..MaxQueries }

Modes == {"options", "preset", "unknown-preset"}

\* The numeric entries of result.metrics, each saved as a performance_metrics row.
NumMetrics == 12

NoRows == [ benchmark_results |-> 0, performance_metrics |-> 0 ]

\* The nested for loops of runBenchmark: the loop variables as they stand at
\* the next execution of the innermost body, from the values p they have
\* when the innermost loop is (re-)entered; an embedding model without a
\* dimension is passed over (continue). Past the end, p.s is beyond the
\* strategies.
RECURSIVE LoopFrom(_, _)
LoopFrom(o, p) ==
  IF p.s > Len(o.searchStrategies) THEN p
  ELSE IF p.l > Len(o.llmModels)
    THEN LoopFrom(o, [ s |-> p.s + 1, l |-> 1, e |-> 1, c |-> 1, q |-> 1 ])
  ELSE IF p.e > Len(o.embeddingModels)
    THEN LoopFrom(o, [ s |-> p.s, l |-> p.l + 1, e |-> 1, c |-> 1, q |-> 1 ])
  ELSE IF getEmbeddingDimension(o.embeddingModels[p.e]) = 0
    THEN LoopFrom(o, [ s |-> p.s, l |-> p.l, e |-> p.e + 1, c |-> 1, q |-> 1 ])
  ELSE IF p.c > Len(o.contentTypes)
    THEN LoopFrom(o, [ s |-> p.s, l |-> p.l, e |-> p.e + 1, c |-> 1, q |-> 1 ])
  ELSE IF p.q > o.numQueries
    THEN LoopFrom(o, [ s |-> p.s, l |-> p.l, e |-> p.e, c |-> p.c + 1, q |-> 1 ])
  ELSE p

LoopStart == [ s |-> 1, l |-> 1, e |-> 1, c |-> 1, q |-> 1 ]
LoopsDone(o, p) == p.s > Len(o.searchStrategies)

\* The record pushed for the loop variables p: benchmarkQuery's result
\* (success true) or the catch block's (success false).
ResultOf(o, p, ok) ==
  [ query_id |-> p.q,
    search_strategy |-> o.searchStrategies[p.s],
    llm_model |-> o.llmModels[p.l],
    embedding_model |-> o.embeddingModels[p.e],
    content_type |-> o.contentTypes[p.c],
    success |-> ok ]

\* A summary that would take every record.
allResults(list) == list

\* generateSummary: const successfulResults = results.filter(r => r.success)
successfulResults(list) == SelectSeq(list, LAMBDA r : r.success)

\* groupBy(successfulResults, 'search_strategy'): the statistics of each
\* strategy are computed from the records of its group.
groupBy(list) ==
  [ k \in { list[i].search_strategy : i \in 1..Len(list) } |->
      SelectSeq(list, LAMBDA r : r.search_strategy = k) ]

BenchInit ==
  /\ mode \in Modes
  /\ runOptions \in OptionSets
  /\ bpc = "cli"
  /\ at = LoopStart
  /\ results = <<>>
  /\ summary = <<>>
  /\ written = FALSE
  /\ openPools = 0
  /\ saved = NoRows
  /\ failed = {}
  /\ exitCode = -1
  /\ IdleExcept("bench")

\* part_003:95-106: `preset <name>`: runPreset(presetName); process.exit(0).
\* runPreset calls runBenchmark without awaiting it, and runBenchmark runs
\* only as far as its first await (getTestQueries) before runPreset returns;
\* an unknown name exits with 1 inside runPreset.
CliPreset ==
  /\ bpc = "cli"
  /\ mode \in {"preset", "unknown-preset"}
  /\ exitCode' = IF mode = "preset" THEN 0 ELSE 1
  /\ bpc' = "exited"
  /\ UNCHANGED <<mode, runOptions, at, results, summary, written, openPools, saved, failed>>
  /\ UnchangedExcept("bench")

\* part_003:108-130: runBenchmark(benchmarkOptions).catch(...).finally(...)
\* as the last statement of the script.
CliOptions ==
  /\ bpc = "cli"
  /\ mode = "options"
  /\ bpc' = "queries"
  /\ UNCHANGED <<mode, runOptions, at, results, summary, written, openPools, saved, failed, exitCode>>
  /\ UnchangedExcept("bench")

\* runBenchmark rejects: the command line's catch handler exits with 1.
RunRejects ==
  /\ exitCode' = 1
  /\ bpc' = "exited"

\* Line 108: const testQueries = await getTestQueries(numQueries), then the
\* loops are entered.
GetTestQueries ==
  /\ bpc = "queries"
  /\ \E ok \in BOOLEAN :
       IF ok THEN /\ at' = LoopFrom(runOptions, LoopStart)
                  /\ bpc' = IF LoopsDone(runOptions, at') THEN "write" ELSE "embedding"
                  /\ UNCHANGED exitCode
             ELSE /\ RunRejects
                  /\ UNCHANGED at
  /\ UNCHANGED <<mode, runOptions, results, summary, written, openPools, saved, failed>>
  /\ UnchangedExcept("bench")

\* Lines 141 and 146-158: the record of this query is pushed, and the loops
\* go on to the next query.
PushAndGoOn(ok) ==
  /\ results' = Append(results, ResultOf(runOptions, at, ok))
  /\ failed' = IF ok THEN failed ELSE failed \cup {at}
  /\ at' = LoopFrom(runOptions, [at EXCEPT !.q = @ + 1])
  /\ bpc' = IF LoopsDone(runOptions, at') THEN "write" ELSE "embedding"

\* benchmarkQuery, lines 193-206: a new test_run_id, the query's embedding,
\* and createSearchStrategy, which makes an instance with a pool of its own.
GenerateEmbedding ==
  /\ bpc = "embedding"
  /\ saved' = NoRows
  /\ \E ok \in BOOLEAN :
       IF ok THEN /\ openPools' = openPools + 1
                  /\ bpc' = "search"
                  /\ UNCHANGED <<at, results, failed>>
             ELSE /\ PushAndGoOn(FALSE)
                  /\ UNCHANGED openPools
  /\ UNCHANGED <<mode, runOptions, summary, written, exitCode>>
  /\ UnchangedExcept("bench")

\* Lines 209-245: await searchStrategyInstance.search(...); when it rejects,
\* benchmarkQuery ends there.
StrategySearch ==
  /\ bpc = "search"
  /\ \E ok \in BOOLEAN :
       IF ok THEN /\ bpc' = "close"
                  /\ UNCHANGED <<at, results, failed>>
             ELSE PushAndGoOn(FALSE)
  /\ UNCHANGED <<mode, runOptions, summary, written, openPools, saved, exitCode>>
  /\ UnchangedExcept("bench")

\* Line 250: await searchStrategyInstance.close().
StrategyClose ==
  /\ bpc = "close"
  /\ openPools' = openPools - 1
  /\ bpc' = "llm"
  /\ UNCHANGED <<mode, runOptions, at, results, summary, written, saved, failed, exitCode>>
  /\ UnchangedExcept("bench")

\* Lines 253-304: the LLM's answer and the result object.
GenerateLLMResponse ==
  /\ bpc = "llm"
  /\ \E ok \in BOOLEAN :
       IF ok THEN /\ bpc' = "save"
                  /\ UNCHANGED <<at, results, failed>>
             ELSE PushAndGoOn(FALSE)
  /\ UNCHANGED <<mode, runOptions, summary, written, openPools, saved, exitCode>>
  /\ UnchangedExcept("bench")

\* saveBenchmarkResult, lines 390-414: INSERT INTO benchmark_results.
SaveResultRow ==
  /\ bpc = "save"
  /\ \E ok \in BOOLEAN :
       IF ok THEN /\ saved' = [saved EXCEPT !.benchmark_results = 1]
                  /\ bpc' = "metrics"
                  /\ UNCHANGED <<at, results, failed>>
             ELSE /\ PushAndGoOn(FALSE)
                  /\ UNCHANGED saved
  /\ UNCHANGED <<mode, runOptions, summary, written, openPools, exitCode>>
  /\ UnchangedExcept("bench")

\* saveBenchmarkResult, lines 417-441: the next INSERT INTO
\* performance_metrics; after the last one benchmarkQuery returns its result.
SaveMetricRow ==
  /\ bpc = "metrics"
  /\ \E ok \in BOOLEAN :
       IF ok THEN /\ saved' = [saved EXCEPT !.performance_metrics = @ + 1]
                  /\ IF saved'.performance_metrics = NumMetrics
                       THEN PushAndGoOn(TRUE)
                       ELSE UNCHANGED <<bpc, at, results, failed>>
             ELSE /\ PushAndGoOn(FALSE)
                  /\ UNCHANGED saved
  /\ UNCHANGED <<mode, runOptions, summary, written, openPools, exitCode>>
  /\ UnchangedExcept("bench")

\* Lines 166-179: the results file.
WriteResultsFile ==
  /\ bpc = "write"
  /\ \E ok \in BOOLEAN :
       IF ok THEN /\ written' = TRUE
                  /\ bpc' = "summary"
                  /\ UNCHANGED exitCode
             ELSE /\ RunRejects
                  /\ UNCHANGED written
  /\ UNCHANGED <<mode, runOptions, at, results, summary, openPools, saved, failed>>
  /\ UnchangedExcept("bench")

\* Lines 184-186 and generateSummary.
GenerateSummary ==
  /\ bpc = "summary"
  /\ summary' = groupBy(successfulResults(results))
  /\ bpc' = "returned"
  /\ UNCHANGED <<mode, runOptions, at, results, written, openPools, saved, failed, exitCode>>
  /\ UnchangedExcept("bench")

\* The finally handler closes the module's connection and the process ends.
ProcessEnds ==
  /\ bpc = "returned"
  /\ exitCode' = 0
  /\ bpc' = "exited"
  /\ UNCHANGED <<mode, runOptions, at, results, summary, written, openPools, saved, failed>>
  /\ UnchangedExcept("bench")

BenchNext ==
  \/ CliPreset
  \/ CliOptions
  \/ GetTestQueries
  \/ GenerateEmbedding
  \/ StrategySearch
  \/ StrategyClose
  \/ GenerateLLMResponse
  \/ SaveResultRow
  \/ SaveMetricRow
  \/ WriteResultsFile
  \/ GenerateSummary
  \/ ProcessEnds

BenchSpec == BenchInit /\ [][BenchNext]_vars

(* Properties of the benchmark run (checked under BenchSpec) *)

\* The embedding models of the runs that have a supported dimension.
ModelsWithDimension ==
  { "text-embedding-3-small", "openai_text-embedding-3-small",
    "text-embedding-3-large", "gemini-embedding-exp-03-07" }

\* The combinations a run is to benchmark, as positions in the option lists.
Combinations ==
  { p \in [ s : 1..Len(runOptions.searchStrategies), l : 1..Len(runOptions.llmModels),
            e : 1..Len(runOptions.embeddingModels), c : 1..Len(runOptions.contentTypes),
            q : 1..runOptions.numQueries ] :
      runOptions.embeddingModels[p.e] \in ModelsWithDimension }

IsFor(r, p) ==
  /\ r.query_id = p.q
  /\ r.search_strategy = runOptions.searchStrategies[p.s]
  /\ r.llm_model = runOptions.llmModels[p.l]
  /\ r.embedding_model = runOptions.embeddingModels[p.e]
  /\ r.content_type = runOptions.contentTypes[p.c]

InLoopOrder(p, r) ==
  \/ p.s < r.s
  \/ p.s = r.s /\ p.l < r.l
  \/ p.s = r.s /\ p.l = r.l /\ p.e < r.e
  \/ p.s = r.s /\ p.l = r.l /\ p.e = r.e /\ p.c < r.c
  \/ p.s = r.s /\ p.l = r.l /\ p.e = r.e /\ p.c = r.c /\ p.q < r.q

EveryCombinationHasARecord ==
  \A p \in Combinations : \E i \in 1..Len(results) : IsFor(results[i], p)

\* C21: a query whose benchmark fails is recorded with success false, the
\* queries and combinations after it are still run, and no failed record is
\* among those the summary's statistics are computed from.
C21_FailuresRecordedRunGoesOn ==
  /\ \A p \in failed : \E i \in 1..Len(results) :
       IsFor(results[i], p) /\ ~results[i].success
  /\ written => EveryCombinationHasARecord
  /\ \A k \in DOMAIN summary : \A i \in 1..Len(summary[k]) : summary[k][i].success

\* A run in which a query failed, a later one succeeded, and the summary was
\* made.
C21_Witness ==
  /\ bpc = "returned"
  /\ failed # {}
  /\ \E i, j \in 1..Len(results) : i < j /\ ~results[i].success /\ results[j].success
  /\ DOMAIN summary # {}

\* C24: the command line `preset <name>` with a known preset does not exit
\* before every query of every combination of the preset has been
\* benchmarked and the results file written.
C24_PresetRunsToCompletion ==
  (mode = "preset" /\ exitCode # -1) => written /\ EveryCombinationHasARecord

\* C25: once benchmarkQuery has returned or thrown, the strategy instance it
\* made is closed; no strategy pool is open between two queries or after the
\* run.
C25_StrategiesClosed ==
  bpc \in {"embedding", "write", "summary", "returned", "exited"} => openPools = 0

\* C27: the results hold exactly one record, of success or of failure, for
\* each combination whose embedding model has a supported dimension, in loop
\* order, and none for an embedding model of unknown dimension.
C27_OneRecordPerCombination ==
  /\ \A i \in 1..Len(results) :
       /\ \E p \in Combinations : IsFor(results[i], p)
       /\ results[i].success \in BOOLEAN
  /\ \A i, j \in 1..Len(results) : i < j =>
       \A p, r \in Combinations :
         IsFor(results[i], p) /\ IsFor(results[j], r) => InLoopOrder(p, r)
  /\ written => EveryCombinationHasARecord

\* A finished run over options with an embedding model of unknown dimension,
\* with records of both kinds.
C27_Witness ==
  /\ written
  /\ \E e \in 1..Len(runOptions.embeddingModels) :
       runOptions.embeddingModels[e] \notin ModelsWithDimension
  /\ \E i, j \in 1..Len(results) : results[i].success /\ ~results[j].success

\* C28: the query just recorded has rows in benchmark_results and
\* performance_metrics exactly when its record says success: none when it
\* failed, its result row and all its metric rows when it succeeded.
C28_RowsIffSuccess ==
  (bpc \in {"embedding", "write"} /\ results # <<>>) =>
    LET last == results[Len(results)]
    IN  /\ last.success => saved.benchmark_results = 1 /\ saved.performance_metrics = 12
        /\ ~last.success => saved.benchmark_results = 0 /\ saved.performance_metrics = 0

-----------------------------------------------------------------------------
(* The statement of a hybrid or combined search as the store runs it: the   *)
(* branches vector_results, keyword_results (and bm25_results) each give    *)
(* their rows as a list, in any order of completion, and the joins read     *)
(* them (strategies/hybrid-search.js, visualize-aggregated.js)              *)

\* The NULL row an outer join puts where a side has no match.
NullRow == [ null |-> TRUE ]
IsNull(r) == "null" \in DOMAIN r

\* COALESCE(a, b) on rows, and COALESCE(r.field, 0) on a score.
CoalesceRows(a, b) == IF IsNull(a) THEN b ELSE a
ScoreOr0(r, field) == IF IsNull(r) THEN 0 ELSE r[field]

\* The row of rs with that id, NULL when there is none.
MatchIn(rs, id) ==
  IF \E j \in 1..Len(rs) : rs[j].id = id
    THEN rs[CHOOSE j \in 1..Len(rs) : rs[j].id = id]
    ELSE NullRow

\* A join that would pair the rows of the two lists by their place in them.
JoinByPosition(left, right) ==
  [ i \in 1..(IF Len(left) >= Len(right) THEN Len(left) ELSE Len(right)) |->
      [ l |-> IF i <= Len(left) THEN left[i] ELSE NullRow,
        r |-> IF i <= Len(right) THEN right[i] ELSE NullRow ] ]

\* left FULL OUTER JOIN right ON left.id = right.id: each left row with its
\* match or NULL, then the right rows without a match.
FullOuterJoin(left, right) ==
  LET rightOnly == SelectSeq(right, LAMBDA x : IsNull(MatchIn(left, x.id))) IN
  [ i \in 1..Len(left) |-> [ l |-> left[i], r |-> MatchIn(right, left[i].id) ] ]
    \o [ i \in 1..Len(rightOnly) |-> [ l |-> NullRow, r |-> rightOnly[i] ] ]

\* The SELECT list of hybrid combined_results over the joined pairs.
HybridSelect(pairs, c) ==
  { LET p == pairs[i]
        row == CoalesceRows(p.l, p.r)
        vs == ScoreOr0(p.l, "vector_similarity")
        ks == ScoreOr0(p.r, "keyword_similarity")
    IN  [ id |-> row.id, content |-> row.content, content_type |-> row.content_type,
          xeto_spec_name |-> row.xeto_spec_name, xeto_library |-> row.xeto_library,
          weighted_vector_similarity |-> vs * c.vectorWeight,
          weighted_keyword_similarity |-> ks * c.keywordWeight,
          combined_score |-> (vs * c.vectorWeight) + (ks * c.keywordWeight) ] :
    i \in 1..Len(pairs) }

\* The SELECT list of vk_join: COALESCE(v.col, k.col) and each side's score,
\* NULL scores kept as the NULL row's.
VkSelect(pairs) ==
  [ i \in 1..Len(pairs) |->
      [ id |-> CoalesceRows(pairs[i].l, pairs[i].r).id,
        row |-> CoalesceRows(pairs[i].l, pairs[i].r),
        v |-> pairs[i].l, k |-> pairs[i].r ] ]

\* The SELECT list of combined combined_results over vk_join joined to
\* bm25_results.
CombinedSelect(pairs, c) ==
  { LET p == pairs[i]
        row == IF IsNull(p.l) THEN p.r ELSE p.l.row
        vs == IF IsNull(p.l) THEN 0 ELSE ScoreOr0(p.l.v, "vector_similarity")
        ks == IF IsNull(p.l) THEN 0 ELSE ScoreOr0(p.l.k, "keyword_similarity")
        bs == ScoreOr0(p.r, "bm25_similarity")
    IN  [ id |-> row.id, content |-> row.content, content_type |-> row.content_type,
          xeto_spec_name |-> row.xeto_spec_name, xeto_library |-> row.xeto_library,
          weighted_vector_similarity |-> vs * c.vectorWeight,
          weighted_keyword_similarity |-> ks * c.keywordWeight,
          weighted_bm25_similarity |-> bs * c.bm25Weight,
          combined_score |-> (vs * c.vectorWeight) + (ks * c.keywordWeight)
                               + (bs * c.bm25Weight) ] :
    i \in 1..Len(pairs) }

\* The branches of a strategy's statement, and how many rows each is
\* limited to: LIMIT $3 * 2 in hybrid, LIMIT $3 * 3 in combined.
BranchesOf(c) ==
  IF c.strategy = "hybrid-search" THEN {"vector_results", "keyword_results"}
  ELSE {"vector_results", "keyword_results", "bm25_results"}
BranchLimit(c) == IF c.strategy = "hybrid-search" THEN c.topK * 2 ELSE c.topK * 3

\* The lists a branch may give: its ORDER BY ... LIMIT over the rows of the
\* content type, rows of equal key in any order.
BranchLists(b, c, docs) ==
  OrderByDescLimit(
    IF b = "vector_results" THEN ByDistance(docs, c.embedding.v)
    ELSE IF b = "keyword_results" THEN ByKeywordRank(docs, c.keywordPattern)
    ELSE ByBm25Rank(docs, c.queryText),
    BranchLimit(c))

NoBranchRows == [ vector_results |-> <<>>, keyword_results |-> <<>>, bm25_results |-> <<>> ]

\* The calls whose statement is run: on the 768 table, with the default
\* weights or a vector weight of 2.0.
FusionWidth == 768
FusionOptions == { <<>>, [ o \in {"vectorWeight"} |-> 20 ] }
FusionEmbeddings == { e \in QueryEmbeddings : e.length = FusionWidth }

FusionInit ==
  /\ fstore \in Stores
  /\ fcall = NoCall
  /\ fdone = <<>>
  /\ fbranch = NoBranchRows
  /\ fused = <<>>
  /\ IdleExcept("fusion")

\* search(...) of a hybrid or combined strategy sends its statement (one
\* statement is followed from its sending to its combined_results).
FusionCall ==
  /\ fcall = NoCall
  /\ \E embedding \in FusionEmbeddings, queryText \in QueryTexts,
        contentType \in ContentTypes, topK \in 1..MaxTopK, options \in FusionOptions,
        hybrid \in BOOLEAN :
       fcall' = IF hybrid
                  THEN HybridLocals(embedding, queryText, contentType, topK, FusionWidth, options)
                  ELSE CombinedLocals(embedding, queryText, contentType, topK, FusionWidth, options)
  /\ fdone' = <<>>
  /\ fbranch' = NoBranchRows
  /\ fused' = <<>>
  /\ UNCHANGED fstore
  /\ UnchangedExcept("fusion")

\* One of the branches not yet run is run to its end.
BranchCompletes ==
  /\ fcall # NoCall
  /\ fused = <<>>
  /\ \E b \in BranchesOf(fcall) \ Range(fdone) :
       \E list \in BranchLists(b, fcall, Filtered(fstore[fcall.tableName], fcall.contentType)) :
         /\ fbranch' = [fbranch EXCEPT ![b] = list]
         /\ fdone' = Append(fdone, b)
  /\ UNCHANGED <<fstore, fcall, fused>>
  /\ UnchangedExcept("fusion")

\* combined_results: its FROM reads every branch, so it runs when all of
\* them have completed.
Fuse ==
  /\ fcall # NoCall
  /\ fused = <<>>
  /\ Range(fdone) = BranchesOf(fcall)
  /\ fused' =
       IF fcall.strategy = "hybrid-search"
         THEN << HybridSelect(FullOuterJoin(fbranch.vector_results,
                                            fbranch.keyword_results), fcall) >>
         ELSE << CombinedSelect(
                   FullOuterJoin(VkSelect(FullOuterJoin(fbranch.vector_results,
                                                        fbranch.keyword_results)),
                                 fbranch.bm25_results), fcall) >>
  /\ UNCHANGED <<fstore, fcall, fdone, fbranch>>
  /\ UnchangedExcept("fusion")

FusionNext == FusionCall \/ BranchCompletes \/ Fuse

FusionSpec == FusionInit /\ [][FusionNext]_vars

(* Properties of the fusion (checked under FusionSpec) *)

\* C22: the fused candidates are made only when every branch has completed,
\* and they are the candidates the branches' rows give when matched by id,
\* whatever the order the branches completed in and whatever the order of
\* the rows inside each branch's list.
C22_FusionIsByIdNotByArrival ==
  fused # <<>> =>
    /\ Range(fdone) = BranchesOf(fcall)
    /\ fused[1] =
         IF fcall.strategy = "hybrid-search"
           THEN HybridCombined(Range(fbranch.vector_results),
                               Range(fbranch.keyword_results),
                               fcall.vectorWeight, fcall.keywordWeight)
           ELSE CombinedResults(vk_join(Range(fbranch.vector_results),
                                        Range(fbranch.keyword_results)),
                                Range(fbranch.bm25_results),
                                fcall.vectorWeight, fcall.keywordWeight, fcall.bm25Weight)

\* A fusion whose keyword branch completed before its vector branch, the two
\* having the same two documents in opposite orders.
C22_Witness ==
  /\ fused # <<>>
  /\ fdone[1] = "keyword_results"
  /\ Len(fbranch.vector_results) = 2
  /\ Len(fbranch.keyword_results) = 2
  /\ fbranch.vector_results[1].id = fbranch.keyword_results[2].id
  /\ fbranch.vector_results[2].id = fbranch.keyword_results[1].id

=============================================================================
